---- MODULE Spec2Model ----
(***************************************************************************)
(* Screen Clock Engine of sc2-coop-overlay (src/src/overlay/screen_clock.py *)
(* and its caller src/src/overlay/app.py).                                  *)
(*                                                                          *)
(* Time is time.perf_counter() counted in whole units of half a tick        *)
(* period.  The ScreenClock tuning fields are constructor parameters; the   *)
(* engine modelled here is built with game_speed_multiplier = 1/2 per unit  *)
(* (tick_period = 2 units), dropout_grace_s = 4, holdover_s = 4,            *)
(* engine_reset_after_fail_s = 3 and a poll period of 1 unit.               *)
(*                                                                          *)
(* The specifications share the variables:                                  *)
(*   Spec        the query path: display_time() called at any time, against *)
(*               the observations the worker stores under _lock;            *)
(*   SpecWorker  the polling worker, statement by statement: its poll       *)
(*               cycles, the health timer and the engine resets;            *)
(*   SpecLife    start()/stop() on two ScreenClock instances and their      *)
(*               worker threads (the stop flag is a class-level default).   *)
(*   SpecRestart one instance stopped and started again, with the           *)
(*               observation its worker stores and display_time();          *)
(*   SpecCallers two threads inside display_time(), statement by statement, *)
(*               and the worker's store, all under _lock;                   *)
(*   SpecConc    the poll cycle step by step with debug_snapshot() and the  *)
(*               UI thread: _lock, _ocr_lock and the OCR engine handle;     *)
(*   SpecSelect  _read_seconds_once_best over the texts the variants        *)
(*               recognize on a still screen, and the end of the cycle;     *)
(*   SpecSnap    the same with debug_snapshot() called meanwhile;           *)
(*   SpecScore   the same loop, and _score_candidate applied to pairs of    *)
(*               candidates;                                                *)
(*   SpecPrefer  a new engine polling a changing screen, cycle after cycle: *)
(*               the preferred variant and the order of the next search;    *)
(*   SpecFormat  display_time() for any time_offset_s and parsed time;      *)
(*   SpecLifeFair  SpecLife with the join and the worker's loop test fair;  *)
(*   SpecConfig  start_clock_from_config(): config.json to a running clock; *)
(*   SpecParse   one poll cycle on every short recognized text;             *)
(*   SpecPreprocess  _preprocess_clock_bgra on small images, all variants;  *)
(*   SpecCrop    _auto_crop_to_glyph_band on sparse images;                 *)
(*   SpecRecal   main() of app.py: the calibration hotkeys and the window;  *)
(*   SpecModule  ScheduledModule.update on short sorted schedules.          *)
(***************************************************************************)
EXTENDS Integers, Sequences, FiniteSets, TLC

VARIABLES
    now,             \* time.perf_counter()
    last_op,         \* the operation that produced this state
    \* ---- ScreenClock fields (of the instance Observed) ----
    obs_s,           \* _last_observed_s (None until the first observation)
    obs_m,           \* _last_observed_wall_mono
    disp_s,          \* _disp_s
    disp_next,       \* _disp_next_tick_mono
    preferred,       \* _preferred_variant
    last_parse_ok,   \* _last_parse_ok_mono
    engine_gen,      \* number of times _engine was rebuilt
    last_ocr_text,   \* _last_ocr_text
    \* ---- display_time() result ----
    ret,             \* <<seconds, text>> of the last display_time() call
    \* ---- history (recorded for the properties, never read by the code) ----
    w_start,         \* perf_counter() when the worker of Observed started
    h_prev_num,      \* the numeric result before the last one returned
    h_corr,          \* correction applied since the last consumed tick deadline
    h_base,          \* <<disp_s, disp_next>> left by the last Fresh call
    h_conv,          \* convergence bookkeeping: deadline by which disp = estimate
    h_call,          \* now_m of the previous display_time() call
    h_resets,        \* <<now_m of the reset before the last, now_m of the last reset>>
    \* ---- threads of the instances ----
    stop_evt,        \* ScreenClock._stop_evt, one Event shared by all instances
    thread,          \* per instance, its _thread: "none", "alive", "dead"
    l_pc,            \* per instance, where its worker thread is (see InFlight)
    l_loc,           \* per instance, the locals of its worker thread: now_m,
                     \* next_time, last_s and the best_* of the selector
    stopped,         \* per instance: stop() was called since its worker was created
    caller,          \* controlling thread: <<"idle", 0>> or <<"join", e>>
    h_life,          \* per instance, the last call made on it: "none", "started", "stopped"
    h_restarted,     \* start() followed a stop() and nothing was stored since
    workers,         \* per instance: live threads running its _worker
    \* ---- locks and the other threads ----
    locks,           \* holder of _lock and of _ocr_lock: a thread or "free"
    ui,              \* per UI thread: position and locals of its display_time() call
    s_pc,            \* position of the thread running debug_snapshot()
    c_op,            \* <<step, thread>> of the last step of a thread
    h_ser,           \* history: the shared state when two overlapping calls began
    h_during,        \* history: the call in flight began during a recognize call
                     \* of the worker that is still running
    \* ---- the screen and the constructor parameter time_offset_s ----
    screen,          \* per instance, the frames a capture of its rect may
                     \* return; a frame is what each variant recognizes on it
    time_offset,     \* time_offset_s of the instance Observed
    \* ---- construction from the persisted configuration (SpecConfig) ----
    cfg_data,        \* config.json as found, and whether the OCR wheels import
    cfg_rect,        \* the Rect OverlayConfig.load built, << >> before that
    cfg_pc,          \* position of start_clock_from_config()
    \* ---- diagnostics ----
    snap_out,        \* the locals of debug_snapshot() and, once it returned,
                     \* its result; << >> before the first call
    \* ---- image functions (SpecPreprocess, SpecCrop) ----
    img_in,          \* the arguments: pixels (row-major BGRA), w, h, variant
    img_out,         \* what the function returned, << >> before that
    \* ---- _score_candidate applied on its own (SpecScore) ----
    score_in,        \* two candidates (parsed_s, text) and last_s
    score_out,       \* the score of each, << >> before that
    \* ---- the application around the engine (SpecRecal, SpecModule) ----
    app,             \* main(): its clock, the window's clock, the calibration
    mod              \* a ScheduledModule: its schedule, the time shown, its flash

vars == << now, last_op, obs_s, obs_m, disp_s, disp_next, preferred, last_parse_ok,
           engine_gen, last_ocr_text, ret, w_start, h_prev_num,
           h_corr, h_base, h_conv, h_call, h_resets,
           stop_evt, thread, l_pc, l_loc, stopped, caller, h_life, h_restarted,
           workers, locks, ui, s_pc, c_op, h_ser, h_during,
           screen, time_offset,
           cfg_data, cfg_rect, cfg_pc, snap_out, img_in, img_out,
           score_in, score_out, app, mod >>

\* What display_time() reads or writes, with its history.
displayVars == << disp_s, disp_next, ret, h_prev_num, h_corr, h_base, h_conv, h_call >>

\* What only the worker writes, with its history.
workerVars == << preferred, last_parse_ok, engine_gen, last_ocr_text,
                 w_start, h_resets >>

lifeCore == << stop_evt, thread, l_pc, stopped, caller, h_life >>

lifeVars == << lifeCore, h_restarted, workers, l_loc >>

concVars == << locks, ui, s_pc, c_op, h_ser, h_during >>

selVars == << screen, time_offset >>

cfgVars == << cfg_data, cfg_rect, cfg_pc >>

\* What the display, worker, lifecycle and thread models never touch.
imgVars == << img_in, img_out, score_in, score_out >>

uiVars == << app, mod >>

extraVars == << cfgVars, snap_out, imgVars, uiVars >>

----------------------------------------------------------------------------
\* Python's None for the Optional[int] fields: a value that no int the model
\* stores in such a field can equal (stored times are >= -Horizon).
None == -999999

\* ---- bounds of the model ----
MaxStart   == 4     \* the worker starts at perf_counter() = 0 or MaxStart
Horizon    == 5     \* time units explored after the start
MaxParsed  == 2     \* parsed OCR times are 0..MaxParsed
CallSpan   == 1     \* time units that pass while one display_time() call runs
QueryHorizon == 9   \* time units explored by the query model

\* ---- ScreenClock parameters, in time units ----
TickPeriod           == 2   \* tick_period = 1 / game_speed_multiplier
DropoutGrace         == 4   \* dropout_grace_s
HoldoverS            == 4   \* holdover_s
MaxCorrectionPerTick == 1   \* max_correction_per_tick_s
TimeOffset           == 1   \* time_offset_s (the dataclass default; app.py passes 1)
EngineResetAfterFail == 3   \* engine_reset_after_fail_s
PollPeriod           == 1   \* period = 1 / max(1, poll_hz)
NoObsAge             == 999999

Max(a, b) == IF a >= b THEN a ELSE b
Min(a, b) == IF a <= b THEN a ELSE b
Abs(a) == IF a >= 0 THEN a ELSE -a

----------------------------------------------------------------------------
(* Variant catalog of _iter_preprocess_variants: the comprehension nests    *)
(* scale, lum, gmin, di in that order (the last varies fastest).            *)
BaseScales == << 8, 6, 4 >>
BaseLum    == << 70, 60 >>
BaseGmin   == << 80, 60, 100 >>
BaseDi     == << 0, 1 >>

Catalog ==
    [ i \in 1..(Len(BaseScales) * Len(BaseLum) * Len(BaseGmin) * Len(BaseDi)) |->
        << BaseScales[((i - 1) \div (Len(BaseLum) * Len(BaseGmin) * Len(BaseDi))) + 1],
           BaseLum[(((i - 1) \div (Len(BaseGmin) * Len(BaseDi))) % Len(BaseLum)) + 1],
           BaseGmin[(((i - 1) \div Len(BaseDi)) % Len(BaseGmin)) + 1],
           BaseDi[((i - 1) % Len(BaseDi)) + 1] >> ]

\* Optional[Variant] = None
NoVariant == << >>

\* The times a modelled poll cycle may parse.
ParsedTimes == 0..MaxParsed

----------------------------------------------------------------------------
(* Texts.  A str is the sequence of the code points of its characters.      *)

\* ord(c) of the characters the texts below are written with
Ord(c) ==
    CASE c = "\t" -> 9 [] c = "\n" -> 10 [] c = " " -> 32 [] c = "-" -> 45
      [] c = "0" -> 48 [] c = "1" -> 49 [] c = "2" -> 50 [] c = "3" -> 51
      [] c = "4" -> 52 [] c = "5" -> 53 [] c = "6" -> 54 [] c = "7" -> 55
      [] c = "8" -> 56 [] c = "9" -> 57 [] c = ":" -> 58 [] c = "G" -> 71
      [] c = "T" -> 84 [] c = "_" -> 95 [] c = "a" -> 97 [] c = "d" -> 100
      [] c = "e" -> 101 [] c = "g" -> 103 [] c = "i" -> 105 [] c = "l" -> 108
      [] c = "m" -> 109 [] c = "s" -> 115 [] c = "u" -> 117 [] c = "x" -> 120

\* The str written as the sequence s of its characters.
RECURSIVE Text(_)
Text(s) == IF s = << >> THEN << >> ELSE << Ord(Head(s)) >> \o Text(Tail(s))

\* str(n) of one decimal digit
DigitChar(n) == Ord("0") + n

\* The fullwidth digit n, chr(0xFF10 + n): one of the decimal digits that
\* are not ASCII.
FullwidthDigit(n) == 65296 + n

\* The code points of the digit zero of every decimal number system of the
\* Unicode database of the interpreter (14.0): a character is a decimal
\* digit, and matched by \d, when it is one of the ten from such a zero on.
DecimalZeros ==
    { 48, 1632, 1776, 1984, 2406, 2534, 2662, 2790, 2918, 3046, 3174, 3302, 3430,
      3558, 3664, 3792, 3872, 4160, 4240, 6112, 6160, 6470, 6608, 6784, 6800,
      6992, 7088, 7232, 7248, 42528, 43216, 43264, 43472, 43504, 43600, 44016,
      65296, 66720, 68912, 69734, 69872, 69942, 70096, 70384, 70736, 70864,
      71248, 71360, 71472, 71904, 72016, 72784, 73040, 73120, 92768, 92864,
      93008, 120782, 120792, 120802, 120812, 120822, 123200, 123632, 125264,
      130032 }

\* The white space characters: what \s matches and str.strip() removes.
WhiteSpace ==
    { 9, 10, 11, 12, 13, 28, 29, 30, 31, 32, 133, 160, 5760 }
      \cup (8192..8202) \cup { 8232, 8233, 8239, 8287, 12288 }

\* \d and \s of a str pattern
IsDigit(c) ==
    \/ c >= 48 /\ c <= 57
    \/ c > 127 /\ \E z \in DecimalZeros : c >= z /\ c <= z + 9
IsSpace(c) == c \in WhiteSpace

\* int() of one digit
DigitVal(c) == c - (CHOOSE z \in DecimalZeros : c >= z /\ c <= z + 9)

\* str.strip()
RECURSIVE LStrip(_)
LStrip(t) == IF t # << >> /\ IsSpace(Head(t)) THEN LStrip(Tail(t)) ELSE t
RECURSIVE RStrip(_)
RStrip(t) ==
    IF t # << >> /\ IsSpace(t[Len(t)]) THEN RStrip(SubSeq(t, 1, Len(t) - 1)) ELSE t
Strip(t) == RStrip(LStrip(t))

\* text.replace("\n", " ")
RECURSIVE ReplaceNewline(_)
ReplaceNewline(t) ==
    IF t = << >> THEN << >>
    ELSE << IF Head(t) = Ord("\n") THEN Ord(" ") ELSE Head(t) >>
           \o ReplaceNewline(Tail(t))

----------------------------------------------------------------------------
(* display_time()                                                           *)

\* obs_age = (now_m - obs_m) if obs_s is not None else 999999.0
ObsAge(o_s, o_m, now_m) == IF o_s # None THEN now_m - o_m ELSE NoObsAge

\* Mutant of Regime: the long-dropout test (obs_age > grace + holdover) is lost.
RegimeHoldoverNeverEnds(o_s, o_m, d_s, now_m) ==
    IF o_s = None /\ d_s = None THEN "blank"
    ELSE IF ObsAge(o_s, o_m, now_m) > DropoutGrace
         THEN IF d_s = None THEN "blank" ELSE "holdover"
         ELSE "fresh"

\* The branch display_time() takes: "blank" returns (None, "--:--"),
\* "holdover" is the stale-OCR tick, "fresh" the estimate from the observation.
Regime(o_s, o_m, d_s, now_m) ==
    IF o_s = None /\ d_s = None THEN "blank"
    ELSE IF ObsAge(o_s, o_m, now_m) > DropoutGrace
         THEN IF d_s = None THEN "blank"
              ELSE IF ObsAge(o_s, o_m, now_m) > DropoutGrace + HoldoverS
                   THEN "blank"
                   ELSE "holdover"
         ELSE "fresh"

\* Mutant of Steps: the tick that is due at now_m itself is not counted.
StepsFloorOnly(now_m, d_next) ==
    IF now_m >= d_next THEN (now_m - d_next) \div TickPeriod ELSE 0

\* Mutant of Steps: one tick per call instead of one per elapsed tick period.
StepsOnePerCall(now_m, d_next) == IF now_m >= d_next THEN 1 ELSE 0

\* steps = int((now_m - disp_next) // tick_period) + 1 when now_m >= disp_next
Steps(now_m, d_next) ==
    IF now_m >= d_next THEN ((now_m - d_next) \div TickPeriod) + 1 ELSE 0

\* int(x) of a quotient a / b with b > 0: truncation toward zero
IntOf(a, b) == IF a >= 0 THEN a \div b ELSE -((-a) \div b)

\* est = obs_s + int((now_m - obs_m) * game_speed_multiplier)
Estimate(o_s, o_m, now_m) == o_s + IntOf(now_m - o_m, TickPeriod)

\* Mutant of Correction: no correction is applied at all.
CorrectionDropped(delta) == 0

\* corr = max(-max_correction_per_tick_s, min(max_correction_per_tick_s, delta))
Correction(delta) ==
    IF delta # 0
    THEN Max(-MaxCorrectionPerTick, Min(MaxCorrectionPerTick, delta))
    ELSE 0

\* shown = max(0, disp_s + self.time_offset_s)
Shown(d_s) == Max(0, d_s + time_offset)

RECURSIVE Digits(_)
Digits(n) == IF n < 10 THEN << n >> ELSE Append(Digits(n \div 10), n % 10)

\* Mutant of Pad2: the zero padding is dropped.
Pad2Unpadded(n) == Digits(n)

\* format spec 02d: decimal digits, zero-padded to at least two
Pad2(n) == IF n < 10 THEN << 0, n >> ELSE Digits(n)

\* The digits ds written out
RECURSIVE Chars(_)
Chars(ds) == IF ds = << >> THEN << >> ELSE << DigitChar(Head(ds)) >> \o Chars(Tail(ds))

\* f"{shown // 60:02d}:{shown % 60:02d}"
Format(shown) ==
    Chars(Pad2(shown \div 60)) \o Text(<< ":" >>) \o Chars(Pad2(shown % 60))

\* "--:--"
UnknownText == Text(<< "-", "-", ":", "-", "-" >>)

\* return None, "--:--"
Unknown == << None, UnknownText >>

\* The holdover branch: tick, no correction.
HoldoverState(d_s, d_next, now_m) ==
    << d_s + Steps(now_m, d_next), d_next + Steps(now_m, d_next) * TickPeriod >>

\* The fresh branch: initialise from the estimate, or tick and correct.
FreshState(o_s, o_m, d_s, d_next, now_m) ==
    IF d_s = None
    THEN << Estimate(o_s, o_m, now_m), now_m + TickPeriod >>
    ELSE << (d_s + Steps(now_m, d_next))
              + Correction(Estimate(o_s, o_m, now_m) - (d_s + Steps(now_m, d_next))),
            d_next + Steps(now_m, d_next) * TickPeriod >>

\* <<_disp_s, _disp_next_tick_mono>> after display_time() at now_m.
DisplayState(o_s, o_m, d_s, d_next, now_m) ==
    CASE Regime(o_s, o_m, d_s, now_m) = "holdover" -> HoldoverState(d_s, d_next, now_m)
      [] Regime(o_s, o_m, d_s, now_m) = "fresh" -> FreshState(o_s, o_m, d_s, d_next, now_m)
      [] OTHER -> << d_s, d_next >>

\* The value display_time() returns at now_m.
DisplayResult(o_s, o_m, d_s, d_next, now_m) ==
    IF Regime(o_s, o_m, d_s, now_m) = "blank"
    THEN Unknown
    ELSE << Shown(DisplayState(o_s, o_m, d_s, d_next, now_m)[1]),
            Format(Shown(DisplayState(o_s, o_m, d_s, d_next, now_m)[1])) >>

\* ---- history kept beside one display_time() call ----

\* Correction accumulated since the last tick deadline the call consumed.
CorrAfter(r, d_s, est, steps, ticked) ==
    CASE r = "fresh" /\ d_s # None ->
            IF steps > 0 THEN Correction(est - ticked)
            ELSE h_corr + Correction(est - ticked)
      [] r = "fresh" /\ d_s = None -> 0
      [] r = "holdover" -> IF steps > 0 THEN 0 ELSE h_corr
      [] OTHER -> h_corr

NoConv == [ st |-> "none", by |-> 0, d |-> 0 ]

\* The first Fresh call to read an observation after it was stored measures
\* the distance D between estimate and (ticked) display value; the
\* measurement stays valid while calls stay Fresh and at most one tick period
\* apart.
ConvAfter(r, d_s, est, ticked, now_m) ==
    IF r # "fresh" THEN NoConv
    ELSE CASE h_conv.st = "pending" ->
                [ st |-> "by",
                  by |-> now_m + (IF d_s = None THEN 0 ELSE Abs(est - ticked)) * TickPeriod,
                  d  |-> IF d_s = None THEN 0 ELSE Abs(est - ticked) ]
           [] h_conv.st = "by" ->
                IF h_call # None /\ now_m - h_call <= TickPeriod
                THEN h_conv ELSE NoConv
           [] OTHER -> h_conv

\* A thread outside display_time().
IdleCaller ==
    [ pc |-> "idle", now_m |-> 0, obs_s |-> None, obs_m |-> 0,
      disp_s |-> None, disp_next |-> 0 ]

\* The UI timer thread, the caller of display_time() in the query model.
Caller == "ui1"

\* What a step of the call leaves alone.
DisplayCore ==
    /\ UNCHANGED << now, obs_s, obs_m >>
    /\ UNCHANGED << locks, s_pc, c_op, h_ser, h_during >>
    /\ UNCHANGED << selVars, cfgVars, snap_out, imgVars, workerVars, lifeVars >>

\* The same for a caller that is not MainWindow._tick: the window is not
\* touched.
DisplayFrame ==
    /\ DisplayCore
    /\ UNCHANGED uiVars

\* display_time(), first statement: now_m = time.perf_counter()
DisplayCall ==
    /\ ui[Caller].pc = "idle"
    /\ ui' = [ ui EXCEPT ![Caller] = [ @ EXCEPT !.pc = "enter", !.now_m = now ] ]
    /\ last_op' = "display_call"
    /\ UNCHANGED displayVars
    /\ DisplayFrame

\* with self._lock: the four fields are copied to locals
DisplayRead ==
    /\ ui[Caller].pc = "enter"
    /\ locks.lock = "free"
    /\ ui' = [ ui EXCEPT ![Caller] =
                 [ @ EXCEPT !.pc = "compute", !.obs_s = obs_s, !.obs_m = obs_m,
                            !.disp_s = disp_s, !.disp_next = disp_next ] ]
    /\ h_conv' = ConvAfter(Regime(obs_s, obs_m, disp_s, ui[Caller].now_m), disp_s,
                           Estimate(obs_s, obs_m, ui[Caller].now_m),
                           disp_s + Steps(ui[Caller].now_m, disp_next),
                           ui[Caller].now_m)
    /\ last_op' = "display_read"
    /\ UNCHANGED << disp_s, disp_next, ret, h_prev_num, h_corr, h_base, h_call >>
    /\ DisplayFrame

\* The rest of display_time(): the result is computed from the locals; a
\* numeric result is preceded by `with self._lock:` writing _disp_s and
\* _disp_next_tick_mono, an unknown one writes nothing.
DisplayReturns ==
    LET l      == ui[Caller]
        r      == Regime(l.obs_s, l.obs_m, l.disp_s, l.now_m)
        steps  == Steps(l.now_m, l.disp_next)
        est    == Estimate(l.obs_s, l.obs_m, l.now_m)
        ticked == l.disp_s + steps
        st     == DisplayState(l.obs_s, l.obs_m, l.disp_s, l.disp_next, l.now_m)
    IN  /\ l.pc = "compute"
        /\ r # "blank" => locks.lock = "free"
        /\ disp_s' = IF r = "blank" THEN disp_s ELSE st[1]
        /\ disp_next' = IF r = "blank" THEN disp_next ELSE st[2]
        /\ ret' = DisplayResult(l.obs_s, l.obs_m, l.disp_s, l.disp_next, l.now_m)
        /\ ui' = [ ui EXCEPT ![Caller] = IdleCaller ]
        /\ last_op' = "display_time"
        /\ h_prev_num' = IF ret[1] # None THEN ret[1] ELSE h_prev_num
        /\ h_corr' = CorrAfter(r, l.disp_s, est, steps, ticked)
        /\ h_base' = IF r = "fresh" THEN st ELSE h_base
        /\ h_call' = l.now_m
        /\ UNCHANGED h_conv
        /\ DisplayCore

\* The same, called by another than MainWindow._tick.
DisplayTime ==
    /\ DisplayReturns
    /\ UNCHANGED uiVars

\* The worker's update of the shared observation at the end of a poll cycle
\* that parsed t:  with self._lock: _last_observed_s = t;
\*                                  _last_observed_wall_mono = perf_counter()
StoreObservationOf(times) ==
    \E t \in times :
        /\ locks.lock = "free"
        /\ obs_s' = t
        /\ obs_m' = now
        /\ last_op' = "store"
        /\ UNCHANGED << concVars, selVars, extraVars >>
        /\ h_conv' = [ st |-> "pending", by |-> 0, d |-> 0 ]
        /\ h_restarted' = FALSE
        /\ UNCHANGED << workers, l_loc >>
        /\ UNCHANGED << now, disp_s, disp_next, ret, h_prev_num, h_corr, h_base, h_call >>
        /\ UNCHANGED << workerVars, lifeCore >>

\* The store of a poll cycle that parsed one of the times of the query model.
StoreObservation == StoreObservationOf(ParsedTimes)

\* time.perf_counter() advances
Tick ==
    /\ now' = now + 1
    /\ last_op' = "tick"
    /\ UNCHANGED << concVars, selVars, extraVars >>
    /\ UNCHANGED << obs_s, obs_m >>
    /\ UNCHANGED << displayVars, workerVars, lifeVars >>

----------------------------------------------------------------------------
(* The candidate selector: _ocr_once_locked's parse of a recognized text,   *)
(* _score_candidate and the variant loop of _read_seconds_once_best.        *)

\* ---- bound of the selector models ----
SelLen == 2         \* variants that recognize any text; the rest recognize ""

\* ---- constants of _score_candidate and of the early exit ----
ScoreBase           == 10000
ContinuityBonus     == 2000
ContinuityPerSecond == 50
TextBonus           == 200
ColonBonus          == 50
EarlyExitScore      == 11800

\* \d at position i of t
DigitAt(t, i) == i >= 1 /\ i <= Len(t) /\ IsDigit(t[i])

\* \s*: the first position at or after i that is not white space
RECURSIVE SkipSpaces(_, _)
SkipSpaces(t, i) == IF i <= Len(t) /\ IsSpace(t[i]) THEN SkipSpaces(t, i + 1) ELSE i

\* re.search found nothing
NoMatch == [ mm |-> None, ss |-> None ]

\* (?P<mm>\d{k})\s*[:]\s*(?P<ss>\d{2}) matched at position i, for k = 1 or 2
MatchFrom(t, i, k) ==
    LET c == SkipSpaces(t, i + k)
        s == SkipSpaces(t, c + 1)
    IN  IF /\ \A j \in i..(i + k - 1) : DigitAt(t, j)
           /\ c <= Len(t)
           /\ t[c] = Ord(":")
           /\ DigitAt(t, s)
           /\ DigitAt(t, s + 1)
        THEN [ mm |-> IF k = 2 THEN 10 * DigitVal(t[i]) + DigitVal(t[i + 1])
                      ELSE DigitVal(t[i]),
               ss |-> 10 * DigitVal(t[s]) + DigitVal(t[s + 1]) ]
        ELSE NoMatch

\* \d{1,2} is greedy: two digits are tried before one
MatchAt(t, i) ==
    IF MatchFrom(t, i, 2) # NoMatch THEN MatchFrom(t, i, 2) ELSE MatchFrom(t, i, 1)

\* _MMSS_RE.search: the match at the leftmost position that has one
RECURSIVE Search(_, _)
Search(t, i) ==
    IF i > Len(t) THEN NoMatch
    ELSE IF MatchAt(t, i) # NoMatch THEN MatchAt(t, i) ELSE Search(t, i + 1)

\* Mutant of ParseMMSS: the range test on minutes and seconds is dropped.
ParseUnchecked(t) ==
    LET m == Search(ReplaceNewline(t), 1)
    IN  IF m = NoMatch THEN None ELSE m.mm * 60 + m.ss

\* The parsed seconds of _ocr_once_locked for the stripped text t:
\* m = _MMSS_RE.search(text.replace("\n", " ")), then the range test
ParseMMSS(t) ==
    LET m == Search(ReplaceNewline(t), 1)
    IN  IF m = NoMatch THEN None
        ELSE IF m.ss <= 59 /\ m.mm <= 99 THEN m.mm * 60 + m.ss ELSE None

\* Mutant of ScoreCandidate: the bonus grows with the jump instead of shrinking.
ScoreFartherIsBetter(parsed_s, text, last_s) ==
    ScoreBase
      + (IF last_s # None
         THEN Min(ContinuityBonus, Abs(parsed_s - last_s) * ContinuityPerSecond)
         ELSE 0)
      + (IF text # << >> THEN TextBonus ELSE 0)
      + (IF \E i \in 1..Len(text) : text[i] = Ord(":") THEN ColonBonus ELSE 0)

\* _score_candidate(parsed_s, text, last_s)
ScoreCandidate(parsed_s, text, last_s) ==
    ScoreBase
      + (IF last_s # None
         THEN Max(0, ContinuityBonus - Abs(parsed_s - last_s) * ContinuityPerSecond)
         ELSE 0)
      + (IF text # << >> THEN TextBonus ELSE 0)
      + (IF \E i \in 1..Len(text) : text[i] = Ord(":") THEN ColonBonus ELSE 0)

\* Mutant of VariantOrder: the preferred variant is inserted, not moved.
VariantOrderNoRemove(pref) ==
    IF pref # NoVariant /\ \E i \in 1..Len(Catalog) : Catalog[i] = pref
    THEN << pref >> \o Catalog
    ELSE Catalog

\* The order _iter_preprocess_variants yields the variants in: the catalog,
\* with the preferred variant moved to the front when it is in the catalog.
VariantOrder(pref) ==
    LET Other(v) == v # pref
    IN  IF pref # NoVariant /\ \E i \in 1..Len(Catalog) : Catalog[i] = pref
        THEN << pref >> \o SelectSeq(Catalog, Other)
        ELSE Catalog

\* str(n) of an int n >= 0
Decimal(n) == Chars(Digits(n))

\* _variant_tag(v): f"s{s}_lum{lum}_g{gmin}_d{di}"
VariantTag(v) ==
    Text(<< "s" >>) \o Decimal(v[1]) \o Text(<< "_", "l", "u", "m" >>) \o Decimal(v[2])
      \o Text(<< "_", "g" >>) \o Decimal(v[3]) \o Text(<< "_", "d" >>) \o Decimal(v[4])

\* \d+ from position i of t on: the position of the last digit of the run
\* (i - 1 when t has no digit at i)
RECURSIVE RunEnd(_, _)
RunEnd(t, i) == IF DigitAt(t, i) THEN RunEnd(t, i + 1) ELSE i - 1

\* The characters lit stand in t from position i on.
HasAt(t, i, lit) ==
    /\ i + Len(lit) - 1 <= Len(t)
    /\ SubSeq(t, i, i + Len(lit) - 1) = lit

\* int() of the digits of t from position i to position j
RECURSIVE IntOfDigits(_, _, _)
IntOfDigits(t, i, j) ==
    IF j < i THEN 0 ELSE 10 * IntOfDigits(t, i, j - 1) + DigitVal(t[j])

\* tag_to_variant(tag): m = re.match(r"s(\d+)_lum(\d+)_g(\d+)_d(\d+)", tag);
\* None without a match, else the four groups as ints
TagToVariant(tag) ==
    LET p1 == RunEnd(tag, 2)
        p2 == RunEnd(tag, p1 + 5)
        p3 == RunEnd(tag, p2 + 3)
        p4 == RunEnd(tag, p3 + 3)
    IN  IF /\ HasAt(tag, 1, Text(<< "s" >>))
           /\ p1 >= 2
           /\ HasAt(tag, p1 + 1, Text(<< "_", "l", "u", "m" >>))
           /\ p2 >= p1 + 5
           /\ HasAt(tag, p2 + 1, Text(<< "_", "g" >>))
           /\ p3 >= p2 + 3
           /\ HasAt(tag, p3 + 1, Text(<< "_", "d" >>))
           /\ p4 >= p3 + 3
        THEN << IntOfDigits(tag, 2, p1), IntOfDigits(tag, p1 + 5, p2),
                IntOfDigits(tag, p2 + 3, p3), IntOfDigits(tag, p3 + 3, p4) >>
        ELSE NoVariant

\* best_score, best_parsed, best_text, best_variant before the loop; n counts
\* the variants evaluated, done is the `break`.
NoBest ==
    [ score |-> -1, parsed |-> None, text |-> << >>, variant |-> NoVariant,
      n |-> 0, done |-> FALSE ]

\* One iteration of the variant loop, for the result r of the variant v the
\* generator yielded with its tag: best_variant = tag_to_variant(tag).
BestAfter(st, r, v, last_s) ==
    IF r.parsed = None
    THEN [ st EXCEPT !.text = IF r.text # << >> THEN r.text ELSE @, !.n = @ + 1 ]
    ELSE LET sc  == ScoreCandidate(r.parsed, r.text, last_s)
             new == IF sc > st.score
                    THEN [ st EXCEPT !.score = sc, !.parsed = r.parsed,
                                     !.text = r.text,
                                     !.variant = TagToVariant(VariantTag(v)) ]
                    ELSE st
         IN  [ new EXCEPT !.n = @ + 1, !.done = (new.score >= EarlyExitScore) ]

----------------------------------------------------------------------------
(* Threads and locks.  _lock and _ocr_lock are threading.Lock objects; a    *)
(* `with` block is entered when no thread holds the lock and releases it on *)
(* the way out.  display_time() is three parts: the four fields are read    *)
(* under _lock, the new state is computed from the local copies with no     *)
(* lock held, and the two display fields are written under _lock.           *)

\* The threads that call display_time(): the UI timer and one more caller.
UIs == { "ui1", "ui2" }

\* ---- bound of the thread models ----
ConcHorizon == 1    \* time units explored by the thread models

\* Mutant of CanAcquire: a `with` block is entered whoever holds the lock.
CanAcquireAlways(l) == TRUE

\* with self.<l>: the block is entered only when no thread holds the lock
CanAcquire(l) == locks[l] = "free"

\* Mutant of Release: the block is left with the lock still held.
ReleaseLeaks(l) == locks

\* The lock as thread t enters the block, and as the block is left.
Hold(l, t) == [ locks EXCEPT ![l] = t ]
Release(l) == [ locks EXCEPT ![l] = "free" ]

\* Mutant of QueryLock: the query path takes the OCR lock.
QueryLockIsOcrLock == "ocr_lock"

\* The lock display_time() and last_raw_text() take.
QueryLock == "lock"

\* ---- history of a pair of overlapping calls ----
\* st: "one" while a call runs that began with no other call in flight, "two"
\* once a second call began during it, "dirty" when a third call or a worker
\* update came in between; pre is the shared state when the first began,
\* at and ret are the now_m and the result of each of the two calls.
NoPair ==
    [ st |-> "none", pre |-> << >>, at |-> [ u \in UIs |-> 0 ],
      ret |-> [ u \in UIs |-> Unknown ] ]
DirtyPair == [ NoPair EXCEPT !.st = "dirty" ]

SerAtCall(u) ==
    IF \A v \in UIs \ { u } : ui[v].pc = "idle"
    THEN [ NoPair EXCEPT !.st = "one", !.pre = << obs_s, obs_m, disp_s, disp_next >>,
                         !.at[u] = now ]
    ELSE IF h_ser.st = "one"
         THEN [ h_ser EXCEPT !.st = "two", !.at[u] = now ]
         ELSE DirtyPair

SerAtReturn(u, result) ==
    IF h_ser.st = "two" THEN [ h_ser EXCEPT !.ret[u] = result ]
    ELSE IF \A v \in UIs \ { u } : ui[v].pc = "idle" THEN NoPair ELSE h_ser

SerAtStore == IF \A v \in UIs : ui[v].pc = "idle" THEN NoPair ELSE DirtyPair

\* ---- exceptions and the engine reset ----

\* Mutant of Unwind: an exception leaves the `with` blocks without releasing.
UnwindLeak(t) == locks

\* The locks after an exception of thread t has left its `with` blocks.
Unwind(t) == [ l \in DOMAIN locks |-> IF locks[l] = t THEN "free" ELSE locks[l] ]

\* Mutant of ResetLock: the engine is rebuilt under _lock.
ResetUnderQueryLock == "lock"

\* The lock held around self._reset_engine_locked().
ResetLock == "ocr_lock"

\* (now_m - self._last_parse_ok_mono) > self.engine_reset_after_fail_s
ShouldReset(now_m, mark) == (now_m - mark) > EngineResetAfterFail

\* Mutant of MarkAfterReset: the reset does not record its time.
MarkNotRecorded(now_m, mark) == mark

\* self._last_parse_ok_mono = now_m, the last statement of the reset block
MarkAfterReset(now_m, mark) == now_m

\* Mutant of AfterReturn: the "if t is None: ... continue" branch is lost.
AfterReturnAlwaysStores(t, fail) == "store"

\* Where _worker goes when _read_seconds_once_best returned (t, used_variant):
\* `if t is None` takes the branch of a failed cycle, else the store follows.
AfterReturn(t, fail) == IF t = None THEN fail ELSE "store"

----------------------------------------------------------------------------
(* The ScreenClock instances and their worker threads.  _lock, _ocr_lock    *)
(* and _stop_evt are declared as dataclass field defaults,                  *)
(*     _stop_evt: threading.Event = threading.Event()                       *)
(* so the one object built at class definition is shared by every instance: *)
(* stop_evt and locks are single variables, not one per instance.           *)

\* The running instance and the one a recalibration builds.
Engines == { 1, 2 }

\* The instance whose fields the variables obs_s, obs_m, disp_s, disp_next,
\* preferred, last_parse_ok, engine_gen and last_ocr_text hold.  They are
\* instance attributes: a poll cycle of another instance writes that
\* instance's fields.  Of those the three its worker decides on are
\* carried, beside the worker's locals, in l_loc: mark (_last_parse_ok_mono),
\* seen (_last_observed_s) and preferred (_preferred_variant).
Observed == 1

\* The thread running _worker of instance e.
Worker(e) == << "worker", "worker2" >>[e]

\* A worker thread is at one of: no thread ("idle"), the first statements of
\* _worker ("entry"), the loop test ("loop"),
\* a sleep slice ("sleep"), and inside a poll cycle the capture ("capture"),
\* waiting for _ocr_lock ("ocr_wait"), a recognize call ("recognize"), about
\* to store the recognized text ("set_text"), about to store best_text
\* ("best_text"), waiting for _ocr_lock to reset ("reset_wait"), the engine
\* factory ("reset"), about to store the observation ("store"), between its
\* two assignments ("store_obs_m"), about to record the parse ("mark").

\* A poll cycle in flight that has not begun its store: inside
\* _read_seconds_once_best, in the reset branch, or waiting for _lock.
InFlight ==
    { "capture", "ocr_wait", "recognize", "set_text", "best_text", "reset_wait",
      "reset", "store" }

\* self._last_parse_ok_mono, self._last_observed_s and
\* self._preferred_variant of instance e
MarkOf(e) == IF e = Observed THEN last_parse_ok ELSE l_loc[e].mark
SeenOf(e) == IF e = Observed THEN obs_s ELSE l_loc[e].seen
PreferredOf(e) == IF e = Observed THEN preferred ELSE l_loc[e].preferred

\* Where a failed cycle (an exception, or no variant parsed) goes on: to the
\* engine reset when the health timer has run out, else to the next cycle.
AfterFail(e) == IF ShouldReset(l_loc[e].now_m, MarkOf(e)) THEN "reset_wait" ELSE "loop"

\* The clock text of t seconds (t < 60) as it stands on the screen.
TimeText(t) ==
    Text(<< "0", "0", ":" >>) \o << DigitChar(t \div 10), DigitChar(t % 10) >>

\* A text that is no clock.
NoClockText == Text(<< "x" >>)

\* What _ocr_once_locked returns when the engine recognized raw:
\* text = (result.text or "").strip() is stored and parsed.
OcrResult(raw) == [ text |-> Strip(raw), parsed |-> ParseMMSS(Strip(raw)) ]

\* The position of the variant v in the catalog.
CatalogIndex(v) == CHOOSE i \in 1..Len(Catalog) : Catalog[i] = v

\* A frame is a captured image of the clock rect, given by what the engine
\* recognizes on the image each variant makes of it: f[i] for the i-th
\* variant of the catalog, and nothing for the variants after Len(f).
RawOf(f, v) == IF CatalogIndex(v) <= Len(f) THEN f[CatalogIndex(v)] ELSE << >>

\* The frames a capture may return while the screen changes: nothing
\* readable on it; a text that is no clock; the clock at 0 s, read by the
\* first variant; the clock at MaxParsed s, read by the second variant only.
Screen ==
    { << >>, << NoClockText >>, << TimeText(0) >>,
      << NoClockText, TimeText(MaxParsed) >> }

\* The same without the frame that shows no clock.
ClockScreen == { << >>, << TimeText(0) >>, << NoClockText, TimeText(MaxParsed) >> }

\* What _ocr_once_locked returns for each variant of the order on frame f.
ResultsOn(f, order) == [ i \in 1..Len(order) |-> OcrResult(RawOf(f, order[i])) ]

\* The result of the i-th variant evaluated, and of one past the last.
ResultOf(results, i) ==
    IF i <= Len(results) THEN results[i] ELSE [ text |-> << >>, parsed |-> None ]

\* The locals of a worker thread that has not reached its loop (next_time,
\* now_m, last_s, the captured frame, the generator's list of variants and
\* the best_* are not bound), with the three fields of a newly constructed
\* instance.
WorkerLocals ==
    [ now_m |-> 0, next_time |-> 0, last_s |-> None, best |-> NoBest,
      frame |-> << >>, variants |-> << >>,
      mark |-> 0, seen |-> None, preferred |-> NoVariant ]

\* The locals of a new worker thread of instance e.
NewThread(e) ==
    [ WorkerLocals EXCEPT !.mark = l_loc[e].mark, !.seen = l_loc[e].seen,
                          !.preferred = l_loc[e].preferred ]

\* Field defaults of the dataclass, no thread started.
LifeInit ==
    /\ stop_evt = FALSE
    /\ thread = [ e \in Engines |-> "none" ]
    /\ l_pc = [ e \in Engines |-> "idle" ]
    /\ stopped = [ e \in Engines |-> FALSE ]
    /\ caller = << "idle", 0 >>
    /\ h_life = [ e \in Engines |-> "none" ]
    /\ h_restarted = FALSE
    /\ workers = [ e \in Engines |-> 0 ]
    /\ l_loc = [ e \in Engines |-> WorkerLocals ]

\* start() was called on the instance Observed, and nothing since: its
\* worker thread is about to run _worker.
LifeRunning ==
    /\ stop_evt = FALSE
    /\ thread = [ e \in Engines |-> IF e = Observed THEN "alive" ELSE "none" ]
    /\ l_pc = [ e \in Engines |-> IF e = Observed THEN "entry" ELSE "idle" ]
    /\ stopped = [ e \in Engines |-> FALSE ]
    /\ caller = << "idle", 0 >>
    /\ h_life = [ e \in Engines |-> IF e = Observed THEN "started" ELSE "none" ]
    /\ h_restarted = FALSE
    /\ workers = [ e \in Engines |-> IF e = Observed THEN 1 ELSE 0 ]
    /\ l_loc = [ e \in Engines |-> WorkerLocals ]

\* ---- frames ----

\* The fields of Observed a worker writes.
fieldVars == << obs_s, obs_m, preferred, last_parse_ok, engine_gen, last_ocr_text >>

\* What no step of a display_time() caller or of debug_snapshot() changes.
concRest == << h_prev_num, h_corr, h_base, h_conv, h_call, lifeVars, selVars,
               cfgVars, imgVars, uiVars, w_start, h_resets >>

\* What a step of a display_time() caller leaves alone besides concRest.
callerFrame == << now, fieldVars, s_pc, snap_out >>

\* What a step of debug_snapshot() leaves alone besides concRest.
snapFrame == << now, obs_s, obs_m, disp_s, disp_next, ret, preferred, last_parse_ok,
               engine_gen, ui, h_ser, h_during >>

\* What no step of a worker thread changes.
workerRest == << now, disp_s, disp_next, ret, h_prev_num, h_corr, h_base, h_call,
                 ui, s_pc, stop_evt, stopped, caller, h_life, w_start, selVars,
                 extraVars >>

\* What start(), stop() and the join leave alone.
lifeFrame == << now, fieldVars, displayVars, w_start, h_resets, concVars,
                selVars, extraVars >>

\* now_m = time.perf_counter() at the top of display_time()
DCall(u) ==
    /\ ui[u].pc = "idle"
    /\ ui' = [ ui EXCEPT ![u] = [ @ EXCEPT !.pc = "enter", !.now_m = now ] ]
    /\ h_ser' = SerAtCall(u)
    /\ h_during' = (l_pc[Observed] = "recognize")
    /\ c_op' = << "call", u >>
    /\ last_op' = "thread_step"
    /\ UNCHANGED << disp_s, disp_next, ret, locks >>
    /\ UNCHANGED << concRest, callerFrame >>

\* with self._lock: obs_s = self._last_observed_s
DReadObsS(u) ==
    /\ ui[u].pc = "enter"
    /\ CanAcquire(QueryLock)
    /\ locks' = Hold(QueryLock, u)
    /\ ui' = [ ui EXCEPT ![u] = [ @ EXCEPT !.pc = "read_obs_m", !.obs_s = obs_s ] ]
    /\ c_op' = << "read", u >>
    /\ last_op' = "thread_step"
    /\ UNCHANGED << disp_s, disp_next, ret, h_ser, h_during >>
    /\ UNCHANGED << concRest, callerFrame >>

\* obs_m = self._last_observed_wall_mono
DReadObsM(u) ==
    /\ ui[u].pc = "read_obs_m"
    /\ ui' = [ ui EXCEPT ![u] = [ @ EXCEPT !.pc = "read_disp_s", !.obs_m = obs_m ] ]
    /\ c_op' = << "read", u >>
    /\ last_op' = "thread_step"
    /\ UNCHANGED << disp_s, disp_next, ret, locks, h_ser, h_during >>
    /\ UNCHANGED << concRest, callerFrame >>

\* disp_s = self._disp_s
DReadDispS(u) ==
    /\ ui[u].pc = "read_disp_s"
    /\ ui' = [ ui EXCEPT ![u] = [ @ EXCEPT !.pc = "read_disp_next", !.disp_s = disp_s ] ]
    /\ c_op' = << "read", u >>
    /\ last_op' = "thread_step"
    /\ UNCHANGED << disp_s, disp_next, ret, locks, h_ser, h_during >>
    /\ UNCHANGED << concRest, callerFrame >>

\* disp_next = self._disp_next_tick_mono, and the `with` block is left
DReadDispNext(u) ==
    /\ ui[u].pc = "read_disp_next"
    /\ ui' = [ ui EXCEPT ![u] = [ @ EXCEPT !.pc = "compute", !.disp_next = disp_next ] ]
    /\ locks' = Release(QueryLock)
    /\ c_op' = << "read_done", u >>
    /\ last_op' = "thread_step"
    /\ UNCHANGED << disp_s, disp_next, ret, h_ser, h_during >>
    /\ UNCHANGED << concRest, callerFrame >>

\* The branches that return (None, "--:--") write nothing.
DReturnsUnknown(u) ==
    /\ ui[u].pc = "compute"
    /\ Regime(ui[u].obs_s, ui[u].obs_m, ui[u].disp_s, ui[u].now_m) = "blank"
    /\ ui' = [ ui EXCEPT ![u] = IdleCaller ]
    /\ ret' = Unknown
    /\ h_ser' = SerAtReturn(u, Unknown)
    /\ c_op' = << "return", u >>
    /\ last_op' = "thread_step"
    /\ UNCHANGED << disp_s, disp_next, locks, h_during >>
    /\ UNCHANGED << concRest, callerFrame >>

\* The new state was computed from the local copies;
\* with self._lock: self._disp_s = disp_s
DWriteDispS(u) ==
    /\ ui[u].pc = "compute"
    /\ Regime(ui[u].obs_s, ui[u].obs_m, ui[u].disp_s, ui[u].now_m) # "blank"
    /\ CanAcquire(QueryLock)
    /\ locks' = Hold(QueryLock, u)
    /\ disp_s' = DisplayState(ui[u].obs_s, ui[u].obs_m, ui[u].disp_s, ui[u].disp_next,
                              ui[u].now_m)[1]
    /\ ui' = [ ui EXCEPT ![u] = [ @ EXCEPT !.pc = "write_disp_next" ] ]
    /\ c_op' = << "write", u >>
    /\ last_op' = "thread_step"
    /\ UNCHANGED << disp_next, ret, h_ser, h_during >>
    /\ UNCHANGED << concRest, callerFrame >>

\* self._disp_next_tick_mono = disp_next, the block is left, and
\* return shown, f"{shown // 60:02d}:{shown % 60:02d}"
DWriteDispNext(u) ==
    /\ ui[u].pc = "write_disp_next"
    /\ disp_next' = DisplayState(ui[u].obs_s, ui[u].obs_m, ui[u].disp_s, ui[u].disp_next,
                                 ui[u].now_m)[2]
    /\ locks' = Release(QueryLock)
    /\ ui' = [ ui EXCEPT ![u] = IdleCaller ]
    /\ ret' = DisplayResult(ui[u].obs_s, ui[u].obs_m, ui[u].disp_s, ui[u].disp_next,
                            ui[u].now_m)
    /\ h_ser' = SerAtReturn(u, DisplayResult(ui[u].obs_s, ui[u].obs_m, ui[u].disp_s,
                                             ui[u].disp_next, ui[u].now_m))
    /\ c_op' = << "return", u >>
    /\ last_op' = "thread_step"
    /\ UNCHANGED << disp_s, h_during >>
    /\ UNCHANGED << concRest, callerFrame >>

\* ---- start() and stop() ----

\* Mutant of Start: the is_alive() test is dropped, every start() creates a
\* worker thread.
StartUnguarded(e) ==
    /\ caller[1] = "idle"
    /\ last_op' = "start"
    /\ h_life' = [ h_life EXCEPT ![e] = "started" ]
    /\ h_restarted' = (h_restarted \/ h_life[e] = "stopped")
    /\ stop_evt' = FALSE
    /\ workers' = [ workers EXCEPT ![e] = workers[e] + 1 ]
    /\ l_loc' = [ l_loc EXCEPT ![e] = NewThread(e) ]
    /\ thread' = [ thread EXCEPT ![e] = "alive" ]
    /\ l_pc' = [ l_pc EXCEPT ![e] = "entry" ]
    /\ stopped' = [ stopped EXCEPT ![e] = FALSE ]
    /\ UNCHANGED << caller, lifeFrame >>

\* def start(self): return if the thread is alive; else clear the flag,
\* create the worker thread and start it.
Start(e) ==
    /\ caller[1] = "idle"
    /\ last_op' = "start"
    /\ h_life' = [ h_life EXCEPT ![e] = "started" ]
    /\ h_restarted' = (h_restarted \/ h_life[e] = "stopped")
    /\ IF thread[e] = "alive"
       THEN UNCHANGED << stop_evt, thread, l_pc, stopped, workers, l_loc >>
       ELSE /\ stop_evt' = FALSE
            /\ workers' = [ workers EXCEPT ![e] = workers[e] + 1 ]
            /\ l_loc' = [ l_loc EXCEPT ![e] = NewThread(e) ]
            /\ thread' = [ thread EXCEPT ![e] = "alive" ]
            /\ l_pc' = [ l_pc EXCEPT ![e] = "entry" ]
            /\ stopped' = [ stopped EXCEPT ![e] = FALSE ]
    /\ UNCHANGED << caller, lifeFrame >>

\* def stop(self): set the flag; join(timeout=1.0) if the thread is alive.
StopCall(e) ==
    /\ caller[1] = "idle"
    /\ last_op' = "stop"
    /\ h_life' = [ h_life EXCEPT ![e] = "stopped" ]
    /\ h_restarted' = FALSE
    /\ stop_evt' = TRUE
    /\ stopped' = [ stopped EXCEPT ![e] = (thread[e] = "alive") ]
    /\ caller' = IF thread[e] = "alive" THEN << "join", e >> ELSE caller
    /\ UNCHANGED << thread, l_pc, workers, l_loc, lifeFrame >>

\* t.join(timeout=1.0) returns because the worker has exited.
JoinReturns(e) ==
    /\ caller = << "join", e >>
    /\ thread[e] = "dead"
    /\ caller' = << "idle", 0 >>
    /\ last_op' = "join_returns"
    /\ UNCHANGED << stop_evt, thread, l_pc, stopped, h_life, h_restarted, workers,
                    l_loc, lifeFrame >>

\* Mutant of JoinTimeout: t.join() with no timeout never gives up.
JoinWithoutTimeout(e) ==
    /\ FALSE
    /\ caller = << "join", e >>
    /\ UNCHANGED vars

\* t.join(timeout=1.0) times out: the poll cycle in flight outlasts the second
\* (a sleep slice is at most 0.01 s, so only a cycle can).
JoinTimeout(e) ==
    /\ caller = << "join", e >>
    /\ thread[e] = "alive"
    /\ l_pc[e] \in InFlight
    /\ caller' = << "idle", 0 >>
    /\ last_op' = "join_timeout"
    /\ UNCHANGED << stop_evt, thread, l_pc, stopped, h_life, h_restarted, workers,
                    l_loc, lifeFrame >>

\* ---- _worker() and _read_seconds_once_best(), step by step ----

\* The worker of instance e goes from one position to the next in the step
\* called name.
Moves(e, from, to, name) ==
    /\ l_pc[e] = from
    /\ l_pc' = [ l_pc EXCEPT ![e] = to ]
    /\ c_op' = << name, Worker(e) >>
    /\ last_op' = name
    /\ UNCHANGED workerRest

\* The new thread runs the first statements of _worker: CoInitializeEx,
\* period = 1.0 / max(1.0, float(self.poll_hz)),
\* next_time = time.perf_counter()
WorkerEnters(e) ==
    /\ Moves(e, "entry", "loop", "worker_enters")
    /\ l_loc' = [ l_loc EXCEPT ![e].next_time = now ]
    /\ UNCHANGED << fieldVars, locks, thread, workers >>
    /\ UNCHANGED << h_resets, h_conv, h_restarted, h_ser, h_during >>

\* while not self._stop_evt.is_set(): the flag is set, _worker returns and
\* the thread ends.
WorkerExits(e) ==
    /\ stop_evt
    /\ Moves(e, "loop", "idle", "worker_exits")
    /\ thread' = [ thread EXCEPT ![e] = "dead" ]
    /\ workers' = [ workers EXCEPT ![e] = workers[e] - 1 ]
    /\ UNCHANGED << fieldVars, locks, l_loc >>
    /\ UNCHANGED << h_resets, h_conv, h_restarted, h_ser, h_during >>

\* The flag is clear; now_m = time.perf_counter() is before next_time:
\* time.sleep(min(0.01, next_time - now_m)).
WorkerSleeps(e) ==
    /\ ~stop_evt
    /\ now < l_loc[e].next_time
    /\ Moves(e, "loop", "sleep", "worker_sleeps")
    /\ l_loc' = [ l_loc EXCEPT ![e].now_m = now ]
    /\ UNCHANGED << fieldVars, locks, thread, workers >>
    /\ UNCHANGED << h_resets, h_conv, h_restarted, h_ser, h_during >>

\* The sleep slice ends: continue.
WorkerWakes(e) ==
    /\ Moves(e, "sleep", "loop", "worker_wakes")
    /\ UNCHANGED << fieldVars, locks, thread, workers, l_loc >>
    /\ UNCHANGED << h_resets, h_conv, h_restarted, h_ser, h_during >>

\* The flag is clear and now_m = time.perf_counter() is not before
\* next_time: next_time = now_m + period, and _read_seconds_once_best() is
\* entered.
WorkerStartsCycle(e) ==
    /\ ~stop_evt
    /\ now >= l_loc[e].next_time
    /\ Moves(e, "loop", "capture", "begin")
    /\ l_loc' = [ l_loc EXCEPT ![e].now_m = now, ![e].next_time = now + PollPeriod ]
    /\ UNCHANGED << fieldVars, locks, thread, workers >>
    /\ UNCHANGED << h_resets, h_conv, h_restarted, h_ser, h_during >>

\* The locals of the worker of instance e when an exception has left
\* _read_seconds_once_best.
AfterRaise(e) ==
    [ l_loc EXCEPT ![e].last_s = None, ![e].best = NoBest, ![e].frame = << >>,
                   ![e].variants = << >> ]

\* _capture_bgra raises: the exception reaches `except Exception` in _worker.
CCaptureRaises(e) ==
    /\ Moves(e, "capture", AfterFail(e), "raised")
    /\ locks' = Unwind(Worker(e))
    /\ l_loc' = AfterRaise(e)
    /\ UNCHANGED << fieldVars, thread, workers >>
    /\ UNCHANGED << h_resets, h_conv, h_restarted, h_ser, h_during >>

\* A frame of the screen is captured and cropped; with self._lock: last_s =
\* self._last_observed_s; best_score, best_parsed, best_text and best_variant
\* are set.
CCaptured(e) ==
    /\ CanAcquire("lock")
    /\ Moves(e, "capture", "ocr_wait", "read_last")
    /\ \E f \in screen[e] :
         l_loc' = [ l_loc EXCEPT ![e].frame = f, ![e].last_s = SeenOf(e),
                                 ![e].best = NoBest ]
    /\ UNCHANGED << fieldVars, locks, thread, workers >>
    /\ UNCHANGED << h_resets, h_conv, h_restarted, h_ser, h_during >>

\* with self._ocr_lock: the generator is started (it reads
\* _preferred_variant and puts its list of variants in order), the first
\* variant is preprocessed and goes to _ocr_once_locked, which calls
\* recognize_async on the engine handle.
CEnterOcr(e) ==
    /\ CanAcquire("ocr_lock")
    /\ Moves(e, "ocr_wait", "recognize", "recognize")
    /\ locks' = Hold("ocr_lock", Worker(e))
    /\ l_loc' = [ l_loc EXCEPT ![e].variants = VariantOrder(PreferredOf(e)) ]
    /\ UNCHANGED << fieldVars, thread, workers >>
    /\ UNCHANGED << h_resets, h_conv, h_restarted, h_ser, h_during >>

\* asyncio.run(_do_ocr()) returns what the engine recognized on the image
\* the variant made of the frame.
CRecognized(e) ==
    /\ Moves(e, "recognize", "set_text", "recognized")
    /\ h_during' = IF e = Observed THEN FALSE ELSE h_during
    /\ UNCHANGED << fieldVars, locks, thread, workers, l_loc >>
    /\ UNCHANGED << h_resets, h_conv, h_restarted, h_ser >>

\* The preprocessing or the OCR call raises: the exception leaves both
\* `with` blocks and _read_seconds_once_best, and reaches `except Exception`
\* in _worker.
CRecognizeRaises(e) ==
    /\ Moves(e, "recognize", AfterFail(e), "raised_in_ocr")
    /\ locks' = Unwind(Worker(e))
    /\ h_during' = IF e = Observed THEN FALSE ELSE h_during
    /\ l_loc' = AfterRaise(e)
    /\ UNCHANGED << fieldVars, thread, workers >>
    /\ UNCHANGED << h_resets, h_conv, h_restarted, h_ser >>

\* The variant the loop of instance e is at, what _ocr_once_locked returns
\* for it, and the best_* after this iteration.
VariantAt(e) == l_loc[e].variants[l_loc[e].best.n + 1]
ResultAt(e) == OcrResult(RawOf(l_loc[e].frame, VariantAt(e)))
LoopAfter(e) == BestAfter(l_loc[e].best, ResultAt(e), VariantAt(e), l_loc[e].last_s)

\* After the iteration the loop ends: `break`, or the generator is exhausted.
LoopEnds(e) == LoopAfter(e).done \/ LoopAfter(e).n >= Len(l_loc[e].variants)

\* with self._lock: self._last_ocr_text = text; the text is parsed, the
\* candidate scored, there was no `break` and the next variant is recognized.
CNextVariant(e) ==
    /\ CanAcquire("lock")
    /\ Moves(e, "set_text", "recognize", "recognize")
    /\ ~LoopEnds(e)
    /\ l_loc' = [ l_loc EXCEPT ![e].best = LoopAfter(e) ]
    /\ last_ocr_text' = IF e = Observed THEN ResultAt(e).text ELSE last_ocr_text
    /\ UNCHANGED << obs_s, obs_m, preferred, last_parse_ok, engine_gen >>
    /\ UNCHANGED << locks, thread, workers >>
    /\ UNCHANGED << h_resets, h_conv, h_restarted, h_ser, h_during >>

\* with self._lock: self._last_ocr_text = text; the text is parsed, the
\* candidate scored, the loop ends (`break`, or this was the last variant) and
\* the _ocr_lock block is left.
CLeaveLoop(e) ==
    /\ CanAcquire("lock")
    /\ Moves(e, "set_text", "best_text", "left_loop")
    /\ LoopEnds(e)
    /\ l_loc' = [ l_loc EXCEPT ![e].best = LoopAfter(e) ]
    /\ last_ocr_text' = IF e = Observed THEN ResultAt(e).text ELSE last_ocr_text
    /\ locks' = Release("ocr_lock")
    /\ UNCHANGED << obs_s, obs_m, preferred, last_parse_ok, engine_gen >>
    /\ UNCHANGED << thread, workers >>
    /\ UNCHANGED << h_resets, h_conv, h_restarted, h_ser, h_during >>

\* return best_parsed, best_variant: the locals of _read_seconds_once_best
\* end with the call; t and used_variant of _worker hold what it returned.
ReturnValue(st) == [ NoBest EXCEPT !.parsed = st.parsed, !.variant = st.variant ]

\* The locals of the worker of instance e after the return.
AfterCall(e) ==
    [ l_loc EXCEPT ![e].last_s = None, ![e].best = ReturnValue(l_loc[e].best),
                   ![e].frame = << >>, ![e].variants = << >> ]

\* self._last_ocr_text after `with self._lock: if best_text:
\* self._last_ocr_text = best_text`
BestTextStored(e) ==
    IF e = Observed /\ l_loc[e].best.text # << >> THEN l_loc[e].best.text
    ELSE last_ocr_text

\* with self._lock: if best_text: self._last_ocr_text = best_text
\* return best_parsed, best_variant: a time was parsed.
CReturnsParsed(e) ==
    /\ l_loc[e].best.parsed # None
    /\ CanAcquire("lock")
    /\ Moves(e, "best_text", AfterReturn(l_loc[e].best.parsed, AfterFail(e)), "parsed")
    /\ last_ocr_text' = BestTextStored(e)
    /\ l_loc' = AfterCall(e)
    /\ UNCHANGED << obs_s, obs_m, preferred, last_parse_ok, engine_gen >>
    /\ UNCHANGED << locks, thread, workers >>
    /\ UNCHANGED << h_resets, h_conv, h_restarted, h_ser, h_during >>

\* with self._lock: if best_text: self._last_ocr_text = best_text
\* return best_parsed, best_variant: no variant parsed, `if t is None`.
CReturnsNone(e) ==
    /\ l_loc[e].best.parsed = None
    /\ CanAcquire("lock")
    /\ Moves(e, "best_text", AfterReturn(l_loc[e].best.parsed, AfterFail(e)), "no_parse")
    /\ last_ocr_text' = BestTextStored(e)
    /\ l_loc' = AfterCall(e)
    /\ UNCHANGED << obs_s, obs_m, preferred, last_parse_ok, engine_gen >>
    /\ UNCHANGED << locks, thread, workers >>
    /\ UNCHANGED << h_resets, h_conv, h_restarted, h_ser, h_during >>

\* with self._ocr_lock: (the reset branch of a failed cycle)
CResetEnter(e) ==
    /\ CanAcquire(ResetLock)
    /\ Moves(e, "reset_wait", "reset", "reset")
    /\ locks' = Hold(ResetLock, Worker(e))
    /\ UNCHANGED << fieldVars, thread, workers, l_loc >>
    /\ UNCHANGED << h_resets, h_conv, h_restarted, h_ser, h_during >>

\* self._reset_engine_locked() has replaced self._engine;
\* self._last_parse_ok_mono = now_m; the block is left; continue
CResetDone(e) ==
    /\ Moves(e, "reset", "loop", "reset_done")
    /\ locks' = Release(ResetLock)
    /\ IF e = Observed
       THEN /\ engine_gen' = engine_gen + 1
            /\ last_parse_ok' = MarkAfterReset(l_loc[e].now_m, last_parse_ok)
            /\ h_resets' = << h_resets[2], l_loc[e].now_m >>
            /\ UNCHANGED l_loc
       ELSE /\ l_loc' = [ l_loc EXCEPT ![e].mark =
                            MarkAfterReset(l_loc[e].now_m, l_loc[e].mark) ]
            /\ UNCHANGED << engine_gen, last_parse_ok, h_resets >>
    /\ UNCHANGED << obs_s, obs_m, preferred, last_ocr_text >>
    /\ UNCHANGED << thread, workers >>
    /\ UNCHANGED << h_conv, h_restarted, h_ser, h_during >>

\* OcrEngine.try_create_from_user_profile_languages() raises inside
\* self._reset_engine_locked(): the exception leaves the `with` block (the
\* lock is released) and, since the reset branch is outside every `try` but
\* the one with `finally`, _worker: the thread ends.  The engine handle and
\* _last_parse_ok_mono stay as they were.
CResetRaises(e) ==
    /\ Moves(e, "reset", "idle", "reset_raised")
    /\ locks' = Unwind(Worker(e))
    /\ thread' = [ thread EXCEPT ![e] = "dead" ]
    /\ workers' = [ workers EXCEPT ![e] = workers[e] - 1 ]
    /\ UNCHANGED << fieldVars, l_loc >>
    /\ UNCHANGED << h_resets, h_conv, h_restarted, h_ser, h_during >>

\* with self._lock: self._last_observed_s = t
WStoreObsS(e) ==
    /\ CanAcquire("lock")
    /\ Moves(e, "store", "store_obs_m", "write")
    /\ locks' = Hold("lock", Worker(e))
    /\ IF e = Observed
       THEN /\ obs_s' = l_loc[e].best.parsed
            /\ h_ser' = SerAtStore
            /\ UNCHANGED l_loc
       ELSE /\ l_loc' = [ l_loc EXCEPT ![e].seen = l_loc[e].best.parsed ]
            /\ UNCHANGED << obs_s, h_ser >>
    /\ UNCHANGED << obs_m, preferred, last_parse_ok, engine_gen, last_ocr_text >>
    /\ UNCHANGED << thread, workers >>
    /\ UNCHANGED << h_resets, h_conv, h_restarted, h_during >>

\* self._last_observed_wall_mono = time.perf_counter(), and the block is left
WStoreObsM(e) ==
    /\ Moves(e, "store_obs_m", "mark", "stored")
    /\ locks' = Release("lock")
    /\ IF e = Observed
       THEN /\ obs_m' = now
            /\ h_ser' = SerAtStore
            /\ h_conv' = [ st |-> "pending", by |-> 0, d |-> 0 ]
            /\ h_restarted' = FALSE
       ELSE UNCHANGED << obs_m, h_ser, h_conv, h_restarted >>
    /\ UNCHANGED << obs_s, preferred, last_parse_ok, engine_gen, last_ocr_text >>
    /\ UNCHANGED << thread, workers, l_loc >>
    /\ UNCHANGED << h_resets, h_during >>

\* self._last_parse_ok_mono = now_m
\* if used_variant is not None: self._preferred_variant = used_variant
\* (no lock is held), and the loop test comes next.
WMarksParse(e) ==
    /\ Moves(e, "mark", "loop", "marked")
    /\ IF e = Observed
       THEN /\ last_parse_ok' = l_loc[e].now_m
            /\ preferred' = IF l_loc[e].best.variant # NoVariant
                            THEN l_loc[e].best.variant ELSE preferred
            /\ UNCHANGED l_loc
       ELSE /\ l_loc' = [ l_loc EXCEPT ![e].mark = l_loc[e].now_m,
                                       ![e].preferred =
                                           IF l_loc[e].best.variant # NoVariant
                                           THEN l_loc[e].best.variant ELSE @ ]
            /\ UNCHANGED << last_parse_ok, preferred >>
    /\ UNCHANGED << obs_s, obs_m, engine_gen, last_ocr_text >>
    /\ UNCHANGED << locks, thread, workers >>
    /\ UNCHANGED << h_resets, h_conv, h_restarted, h_ser, h_during >>

\* ---- debug_snapshot(), step by step ----

\* best = None, and the record the function falls back to when nothing was
\* tried.
NoSnapBest == [ variant |-> NoVariant, text |-> << >>, parsed |-> None ]

\* The locals of debug_snapshot() as the call begins: best = None, tried = [].
\* frame is the image the call captures, pref is what the generator reads as
\* it starts, tried_count is set when the call returns.
SnapLocals ==
    [ frame |-> << >>, pref |-> NoVariant, best |-> NoSnapBest, tried |-> << >>,
      tried_count |-> None ]

\* The record appended to tried for the result r.
TriedRecord(st, r) ==
    [ variant |-> VariantOrder(st.pref)[Len(st.tried) + 1],
      text |-> r.text, parsed |-> r.parsed ]

\* tried.append(...); if parsed is not None and best is None: best = tried[-1]
SnapAfter(st, r) ==
    [ st EXCEPT !.tried = Append(@, TriedRecord(st, r)),
                !.best = IF r.parsed # None /\ @.parsed = None
                         THEN TriedRecord(st, r) ELSE @ ]

\* After the loop: if best is None: best = tried[-1]; "tried_count": len(tried).
\* The captured frame ends with the call.
SnapResult(st) ==
    [ st EXCEPT !.best = IF @.parsed = None /\ Len(st.tried) > 0
                         THEN st.tried[Len(st.tried)] ELSE @,
                !.tried_count = Len(st.tried),
                !.frame = << >> ]

\* debug_snapshot(): a frame of the screen is captured, cropped and written
\* to .debug; best = None; tried = []
SCall ==
    /\ s_pc = "idle"
    /\ s_pc' = "ocr_wait"
    /\ \E f \in screen[Observed] : snap_out' = [ SnapLocals EXCEPT !.frame = f ]
    /\ c_op' = << "call", "snap" >>
    /\ last_op' = "thread_step"
    /\ UNCHANGED << locks, last_ocr_text >>
    /\ UNCHANGED << concRest, snapFrame >>

\* with self._ocr_lock: the generator is started (it reads
\* _preferred_variant) and the first variant goes to _ocr_once_locked
SEnterOcr ==
    /\ s_pc = "ocr_wait"
    /\ CanAcquire("ocr_lock")
    /\ locks' = Hold("ocr_lock", "snap")
    /\ s_pc' = "recognize"
    /\ snap_out' = [ snap_out EXCEPT !.pref = preferred ]
    /\ c_op' = << "recognize", "snap" >>
    /\ last_op' = "thread_step"
    /\ UNCHANGED last_ocr_text
    /\ UNCHANGED << concRest, snapFrame >>

\* asyncio.run(_do_ocr()) returns what the engine recognized on the image
\* the variant made of the frame.
SRecognized ==
    /\ s_pc = "recognize"
    /\ s_pc' = "set_text"
    /\ c_op' = << "recognized", "snap" >>
    /\ last_op' = "thread_step"
    /\ UNCHANGED << locks, last_ocr_text, snap_out >>
    /\ UNCHANGED << concRest, snapFrame >>

\* The OCR call raises: the exception leaves the `with` block and
\* debug_snapshot(), which returns nothing.
SRecognizeRaises ==
    /\ s_pc = "recognize"
    /\ locks' = Unwind("snap")
    /\ s_pc' = "idle"
    /\ snap_out' = << >>
    /\ c_op' = << "raised", "snap" >>
    /\ last_op' = "thread_step"
    /\ UNCHANGED last_ocr_text
    /\ UNCHANGED << concRest, snapFrame >>

\* What _ocr_once_locked returns for the variant debug_snapshot() is at.
SnapResultAt ==
    OcrResult(RawOf(snap_out.frame, VariantOrder(snap_out.pref)[Len(snap_out.tried) + 1]))

\* with self._lock: self._last_ocr_text = text; the record is appended to
\* tried; the next variant is written to .debug and recognized
SNextVariant ==
    /\ s_pc = "set_text"
    /\ CanAcquire("lock")
    /\ Len(snap_out.tried) + 1 < Len(VariantOrder(snap_out.pref))
    /\ last_ocr_text' = SnapResultAt.text
    /\ snap_out' = SnapAfter(snap_out, SnapResultAt)
    /\ s_pc' = "recognize"
    /\ c_op' = << "recognize", "snap" >>
    /\ last_op' = "thread_step"
    /\ UNCHANGED locks
    /\ UNCHANGED << concRest, snapFrame >>

\* with self._lock: self._last_ocr_text = text; the record is appended to
\* tried; this was the last variant, the _ocr_lock block is left and
\* debug_snapshot() returns.
SReturns ==
    /\ s_pc = "set_text"
    /\ CanAcquire("lock")
    /\ Len(snap_out.tried) + 1 = Len(VariantOrder(snap_out.pref))
    /\ last_ocr_text' = SnapResultAt.text
    /\ snap_out' = SnapResult(SnapAfter(snap_out, SnapResultAt))
    /\ locks' = Release("ocr_lock")
    /\ s_pc' = "idle"
    /\ c_op' = << "return", "snap" >>
    /\ last_op' = "thread_step"
    /\ UNCHANGED << concRest, snapFrame >>

\* last_raw_text(): with self._lock: return self._last_ocr_text
LastRawText(u) ==
    /\ ui[u].pc = "idle"
    /\ CanAcquire(QueryLock)
    /\ c_op' = << "raw_text", u >>
    /\ last_op' = "thread_step"
    /\ UNCHANGED << disp_s, disp_next, ret, locks, ui, h_ser, h_during >>
    /\ UNCHANGED << concRest, callerFrame >>

\* ---- the steps of a worker thread, grouped ----

\* The thread reaches its loop; the loop test with its sleep slices.
LoopStep(e) ==
    \/ WorkerEnters(e)
    \/ WorkerSleeps(e)
    \/ WorkerWakes(e)

\* A poll cycle in which nothing raises and a variant parses.
ParsedCycleStep(e) ==
    \/ WorkerStartsCycle(e)
    \/ CCaptured(e)
    \/ CEnterOcr(e)
    \/ CRecognized(e)
    \/ CNextVariant(e)
    \/ CLeaveLoop(e)
    \/ CReturnsParsed(e)
    \/ WStoreObsS(e)
    \/ WStoreObsM(e)
    \/ WMarksParse(e)

\* A poll cycle in which nothing raises.
CycleStep(e) ==
    \/ ParsedCycleStep(e)
    \/ CReturnsNone(e)

\* The capture or the OCR call raises.
RaiseStep(e) ==
    \/ CCaptureRaises(e)
    \/ CRecognizeRaises(e)

\* The reset branch of a failed cycle.
ResetStep(e) ==
    \/ CResetEnter(e)
    \/ CResetDone(e)
    \/ CResetRaises(e)

\* Any step of the worker thread of instance e while the flag is clear.
WorkerStep(e) ==
    \/ LoopStep(e)
    \/ CycleStep(e)
    \/ RaiseStep(e)
    \/ ResetStep(e)

\* The steps of a thread inside display_time().
DisplayStep(u) ==
    \/ DCall(u)
    \/ DReadObsS(u)
    \/ DReadObsM(u)
    \/ DReadDispS(u)
    \/ DReadDispNext(u)
    \/ DReturnsUnknown(u)
    \/ DWriteDispS(u)
    \/ DWriteDispNext(u)

\* The steps of the thread inside debug_snapshot().
SnapshotStep ==
    \/ SCall
    \/ SEnterOcr
    \/ SRecognized
    \/ SRecognizeRaises
    \/ SNextVariant
    \/ SReturns

----------------------------------------------------------------------------
(* Initial states and the specifications of the query path, the worker and  *)
(* the lifecycle.                                                           *)

\* No thread inside a call, both locks free.
ConcInit ==
    /\ locks = [ lock |-> "free", ocr_lock |-> "free" ]
    /\ ui = [ u \in UIs |-> IdleCaller ]
    /\ s_pc = "idle"
    /\ c_op = << "init", "none" >>
    /\ h_ser = NoPair
    /\ h_during = FALSE

\* No configuration is being loaded.
CfgIdle ==
    /\ cfg_data = << >>
    /\ cfg_rect = << >>
    /\ cfg_pc = "idle"

\* _score_candidate is not being applied on its own.
ScoreIdle ==
    /\ score_in = << >>
    /\ score_out = << >>

\* No image function is being applied on its own either.
ImgIdle ==
    /\ img_in = << >>
    /\ img_out = << >>
    /\ ScoreIdle

\* main() has not run and no module exists.
UiIdle ==
    /\ app = << >>
    /\ mod = << >>

ExtraInit ==
    /\ CfgIdle
    /\ snap_out = << >>
    /\ ImgIdle
    /\ UiIdle

\* The screen changes between the captures; time_offset_s as app.py passes
\* it.
SelInit ==
    /\ screen = [ e \in Engines |-> Screen ]
    /\ time_offset = TimeOffset

DisplayInit ==
    /\ obs_s = None
    /\ obs_m = 0
    /\ disp_s = None
    /\ disp_next = 0
    /\ ret = Unknown
    /\ h_prev_num = None
    /\ h_corr = 0
    /\ h_base = << None, 0 >>
    /\ h_conv = NoConv
    /\ h_call = None

\* The worker's fields at their dataclass defaults.
WorkerInit ==
    /\ w_start = now
    /\ preferred = NoVariant
    /\ last_parse_ok = 0
    /\ engine_gen = 0
    /\ last_ocr_text = << >>
    /\ h_resets = << None, None >>

\* The fields of the instance Observed after a run that made one poll cycle,
\* at time 0, which read 0 s with the first entry of the catalog; no
\* display_time() call was made.
RanBefore ==
    /\ obs_s = 0
    /\ obs_m = 0
    /\ disp_s = None
    /\ disp_next = 0
    /\ ret = Unknown
    /\ h_prev_num = None
    /\ h_corr = 0
    /\ h_base = << None, 0 >>
    /\ h_conv = [ st |-> "pending", by |-> 0, d |-> 0 ]
    /\ h_call = None
    /\ preferred = Catalog[1]
    /\ last_parse_ok = 0
    /\ engine_gen = 0
    /\ last_ocr_text = TimeText(0)
    /\ h_resets = << None, None >>

\* stop() has ended that run and the worker has exited; the other instance
\* is constructed and was never started.
LifeStopped ==
    /\ stop_evt = TRUE
    /\ thread = [ e \in Engines |-> IF e = Observed THEN "dead" ELSE "none" ]
    /\ l_pc = [ e \in Engines |-> "idle" ]
    /\ stopped = [ e \in Engines |-> e = Observed ]
    /\ caller = << "idle", 0 >>
    /\ h_life = [ e \in Engines |-> IF e = Observed THEN "stopped" ELSE "none" ]
    /\ h_restarted = FALSE
    /\ workers = [ e \in Engines |-> 0 ]
    /\ l_loc = [ e \in Engines |-> WorkerLocals ]

\* After that, start() was called on Observed again, and nothing since: its
\* new worker thread is about to run _worker.
LifeRestarted ==
    /\ stop_evt = FALSE
    /\ thread = [ e \in Engines |-> IF e = Observed THEN "alive" ELSE "none" ]
    /\ l_pc = [ e \in Engines |-> IF e = Observed THEN "entry" ELSE "idle" ]
    /\ stopped = [ e \in Engines |-> FALSE ]
    /\ caller = << "idle", 0 >>
    /\ h_life = [ e \in Engines |-> IF e = Observed THEN "started" ELSE "none" ]
    /\ h_restarted = TRUE
    /\ workers = [ e \in Engines |-> IF e = Observed THEN 1 ELSE 0 ]
    /\ l_loc = [ e \in Engines |-> WorkerLocals ]

\* start() was called on Observed at time 0 and its worker has made its
\* first poll cycle, which read 0 s with the first entry of the catalog, and
\* is back at its loop test; nothing else has run.
FirstCycleDone ==
    /\ RanBefore
    /\ w_start = 0
    /\ stop_evt = FALSE
    /\ thread = [ e \in Engines |-> IF e = Observed THEN "alive" ELSE "none" ]
    /\ l_pc = [ e \in Engines |-> IF e = Observed THEN "loop" ELSE "idle" ]
    /\ stopped = [ e \in Engines |-> FALSE ]
    /\ caller = << "idle", 0 >>
    /\ h_life = [ e \in Engines |-> IF e = Observed THEN "started" ELSE "none" ]
    /\ h_restarted = FALSE
    /\ workers = [ e \in Engines |-> IF e = Observed THEN 1 ELSE 0 ]
    /\ l_loc = [ e \in Engines |->
                   IF e = Observed
                   THEN [ WorkerLocals EXCEPT
                            !.next_time = PollPeriod,
                            !.best = [ NoBest EXCEPT !.parsed = 0,
                                                     !.variant = Catalog[1] ] ]
                   ELSE WorkerLocals ]
    /\ locks = [ lock |-> "free", ocr_lock |-> "free" ]
    /\ ui = [ u \in UIs |-> IdleCaller ]
    /\ s_pc = "idle"
    /\ c_op = << "marked", Worker(Observed) >>
    /\ h_ser = NoPair
    /\ h_during = FALSE

\* A constructed ScreenClock, no observation yet.
Init ==
    /\ now = 0
    /\ last_op = "init"
    /\ DisplayInit
    /\ WorkerInit
    /\ LifeInit
    /\ ConcInit
    /\ SelInit
    /\ ExtraInit

\* time.perf_counter() advances; a display_time() call in flight lasts at
\* most CallSpan.
QueryTick ==
    /\ now < QueryHorizon
    /\ ui[Caller].pc # "idle" => now - ui[Caller].now_m < CallSpan
    /\ Tick

Next ==
    \/ QueryTick
    \/ StoreObservation
    \/ DisplayCall
    \/ DisplayRead
    \/ DisplayTime

Spec == Init /\ [][Next]_vars

\* A ScreenClock whose worker has just been started, at perf_counter() = 0 or
\* at a later time of the process.
InitWorker ==
    /\ now \in { 0, MaxStart }
    /\ last_op = "init"
    /\ DisplayInit
    /\ WorkerInit
    /\ LifeRunning
    /\ ConcInit
    /\ SelInit
    /\ ExtraInit

\* time.perf_counter() advances while the worker runs
WorkerTick ==
    /\ now < w_start + Horizon
    /\ Tick

NextWorker ==
    \/ WorkerTick
    \/ WorkerStep(Observed)

SpecWorker == InitWorker /\ [][NextWorker]_vars

\* The frames of the lifecycle models: nothing readable, or the clock at
\* 0 s read by the first variant.
LifeScreen == { << >>, << TimeText(0) >> }

\* The same without the frame no variant can read.
ReadableScreen == { << TimeText(0) >> }

\* The clock at 0 s is read by the second variant of the catalog only.
SecondScreen == { << NoClockText, TimeText(0) >> }

\* Two constructed ScreenClock instances at a later time of the process:
\* Observed has run once and was stopped, the other was never started.
InitLife ==
    /\ now = MaxStart
    /\ last_op = "init"
    /\ RanBefore
    /\ w_start = 0
    /\ LifeStopped
    /\ ConcInit
    /\ screen = [ e \in Engines |-> ReadableScreen ]
    /\ time_offset = TimeOffset
    /\ ExtraInit

NextLife ==
    \/ \E e \in Engines :
        \/ Start(e)
        \/ StopCall(e)
        \/ JoinReturns(e)
        \/ JoinTimeout(e)
        \/ WorkerExits(e)
        \/ LoopStep(e)
        \/ ParsedCycleStep(e)
        \/ RaiseStep(e)
        \/ ResetStep(e)

SpecLife == InitLife /\ [][NextLife]_vars

----------------------------------------------------------------------------
(* Properties of display_time(), checked under Spec.                        *)

\* The state right after a display_time() call returned; h_call is the now_m
\* the call had read.
Called == last_op = "display_time"

\* The step in which a display_time() call returns, and what the call had
\* read: its now_m and its copies of the four fields.
Returns == ui[Caller].pc = "compute" /\ last_op' = "display_time"
Read == ui[Caller]
ReadAge == Read.now_m - Read.obs_m

\* The stored observation was older than grace plus holdover at the call's
\* now_m (so it is the observation the call read).
StaleBeyondHoldover == obs_s # None /\ h_call - obs_m > DropoutGrace + HoldoverS

\* Tick deadlines d, d + tick_period, ... that lie at or before t.
DeadlinesUpTo(d, t) ==
    Cardinality({ k \in 0..(MaxStart + Horizon) : d + k * TickPeriod <= t })

\* C1: display_time() returns (None, "--:--") whenever no observation was ever
\* stored and whenever the last observation is older than dropout_grace_s +
\* holdover_s; every call does so until a newer observation is stored.
C1_UnknownWhenNoObservationOrStale ==
    [][ (Returns /\ (Read.obs_s = None \/ ReadAge > DropoutGrace + HoldoverS))
          => (ret'[1] = None /\ ret'[2] = UnknownText) ]_vars

\* A display value was established, the observation then aged past the
\* holdover and the call returned unknown.
C1_Witness ==
    Called /\ StaleBeyondHoldover /\ disp_s # None /\ ret[1] = None

\* C2 (as claimed): with an observation no older than dropout_grace_s +
\* holdover_s, display_time() returns a numeric value, whether or not it was
\* called while the observation was fresh.
C2_NumericUntilHoldoverEnds ==
    [][ (Returns /\ Read.obs_s # None /\ ReadAge <= DropoutGrace + HoldoverS)
          => ret'[1] # None ]_vars

\* C3 (as claimed): between two consecutive tick deadlines the display value
\* deviates from plain ticking by at most max_correction_per_tick_s, however
\* many display_time() calls fall into that tick period.
C3_CorrectionBoundedPerTick ==
    Abs(h_corr) <= MaxCorrectionPerTick

\* C4 (as claimed): consecutive numeric results of display_time() never
\* decrease.
C4_NeverDecreases ==
    Called /\ ret[1] # None /\ h_prev_num # None => ret[1] >= h_prev_num

\* C5: in Holdover the display value is the one the last Fresh call left plus
\* one per tick deadline passed since, whatever calls were made in between; it
\* never decreases and no correction is applied.
C5_HoldoverTicksOnly ==
    [][ (Returns /\ Regime(Read.obs_s, Read.obs_m, Read.disp_s, Read.now_m) = "holdover")
          => /\ disp_s' = h_base[1] + DeadlinesUpTo(h_base[2], Read.now_m)
             /\ disp_next' = h_base[2] + DeadlinesUpTo(h_base[2], Read.now_m) * TickPeriod
             /\ ret'[1] = Shown(disp_s')
             /\ h_prev_num' # None => ret'[1] >= h_prev_num' ]_vars

\* A Holdover call after two tick deadlines passed since the last Fresh call.
C5_Witness ==
    Called /\ Regime(obs_s, obs_m, disp_s, h_call) = "holdover"
           /\ ret[1] # None
           /\ disp_s = h_base[1] + 2

\* C6: in the Fresh regime with display_time() called at least once per tick
\* period, a distance D between estimate and display value, measured at the
\* first call after the observation was stored, is closed within D tick
\* periods: from then on the display value equals the estimate.
C6_ConvergesWithinDTicks ==
    [][ (Returns /\ h_conv.st = "by" /\ Read.now_m >= h_conv.by)
          => disp_s' = Estimate(Read.obs_s, Read.obs_m, Read.now_m) ]_vars

\* A distance of at least two seconds was closed.
C6_Witness ==
    Called /\ h_conv.st = "by" /\ h_conv.d >= 2 /\ h_call >= h_conv.by
           /\ disp_s = Estimate(obs_s, obs_m, h_call)

----------------------------------------------------------------------------
(* Properties of the polling worker, checked under SpecWorker.              *)

\* A step of the worker of Observed, by its name.
WorkerDoes(names) == last_op' \in names /\ c_op'[2] = Worker(Observed)

\* The steps in which a poll cycle fails: the capture raised, the OCR call
\* raised, no variant parsed.
FailedOps == { "raised", "raised_in_ocr", "no_parse" }

\* The steps of the reset branch of a failed cycle.
ResetOps == { "reset", "reset_done", "reset_raised" }

\* The steps after `if t is None`: the store and the record of the parse.
StoreOps == { "write", "stored", "marked" }

\* C7: a failed poll cycle leaves the stored observation (parsed seconds and
\* observed_at) and the preferred variant exactly as they were: only the
\* steps after `if t is None` write them, a cycle that failed goes on at the
\* loop test or in the reset branch, and the store is reached only with a
\* parsed time.
C7_FailedCycleKeepsObservation ==
    [][ /\ ( c_op'[2] = Worker(Observed) /\ last_op' \notin StoreOps )
              => ( obs_s' = obs_s /\ obs_m' = obs_m /\ preferred' = preferred )
        /\ WorkerDoes(FailedOps \cup ResetOps)
              => l_pc'[Observed] \in { "loop", "reset_wait", "reset", "idle" }
        /\ l_pc'[Observed] \in { "store", "store_obs_m", "mark" }
              => l_loc'[Observed].best.parsed # None ]_vars

\* A cycle in which no variant parsed ended after an observation had been
\* stored; the text kept is the one that did not parse.
C7_Witness ==
    /\ c_op = << "no_parse", Worker(Observed) >>
    /\ obs_s # None
    /\ preferred # NoVariant
    /\ now > obs_m
    /\ last_ocr_text = NoClockText

\* C8 (as claimed): the engine is reset only by a failed cycle that starts
\* more than engine_reset_after_fail_s after the latest of the worker's start,
\* the last successful parse and the last reset.
C8_ResetOnlyAfterGraceWindow ==
    [][ engine_gen' # engine_gen
          => l_loc[Observed].now_m - Max(w_start, last_parse_ok)
                > EngineResetAfterFail ]_vars

\* C9: resets are time-gated.  A failed cycle goes to the engine reset
\* exactly when it started more than engine_reset_after_fail_s after the
\* recorded mark; the reset records its cycle's start as the new mark, so two
\* consecutive resets are more than engine_reset_after_fail_s apart and the
\* failed cycles in between reset nothing.
C9_OneResetPerFailureWindow ==
    [][ /\ WorkerDoes(FailedOps) =>
             /\ l_pc'[Observed] = "reset_wait"
                    <=> ( l_loc[Observed].now_m - last_parse_ok > EngineResetAfterFail )
             /\ l_pc'[Observed] # "reset_wait" => l_pc'[Observed] = "loop"
             /\ engine_gen' = engine_gen
             /\ last_parse_ok' = last_parse_ok
        /\ engine_gen' # engine_gen =>
             /\ WorkerDoes({ "reset_done" })
             /\ engine_gen' = engine_gen + 1
             /\ last_parse_ok' = l_loc[Observed].now_m
             /\ h_resets[2] # None
                  => l_loc[Observed].now_m - h_resets[2] > EngineResetAfterFail
        /\ WorkerDoes({ "reset_done" }) => engine_gen' # engine_gen ]_vars

\* Two resets happened, and a cycle that started after the last one has
\* failed without resetting the engine.
C9_Witness ==
    /\ last_op \in FailedOps
    /\ h_resets[1] # None
    /\ h_resets[2] - h_resets[1] > EngineResetAfterFail
    /\ engine_gen = 2
    /\ l_pc[Observed] = "loop"
    /\ l_loc[Observed].now_m > h_resets[2]

----------------------------------------------------------------------------
(* Properties of start() / stop(), checked under SpecLife.                  *)

\* C10 (as claimed): once stop() was called on an engine, its worker exits at
\* its next loop test and starts neither a sleep slice nor a poll cycle,
\* whatever start()/stop() calls follow on this or any other instance.
C10_StoppedWorkerNeverContinues ==
    [][ \A e \in Engines :
          (stopped[e] /\ stopped'[e] /\ l_pc[e] = "loop")
              => l_pc'[e] \in { "loop", "idle" } ]_vars

\* C11: an engine on which start() was the last call made (and no call was
\* ever made on another instance) is Running: its worker thread is alive and
\* stays alive until stop() is next called on it.
C11_RunningUntilStopped ==
    \A e \in Engines :
        ( /\ h_life[e] = "started"
          /\ \A o \in Engines \ { e } : h_life[o] = "none" )
            => thread[e] = "alive"

----------------------------------------------------------------------------
(* One engine restarted in place: start(), stop() and the worker of         *)
(* instance 1, the observation its poll cycles store and display_time(),    *)
(* all within one unit of time.                                             *)

\* A constructed ScreenClock, not started, at a later time of the process;
\* the clock on the screen stands still.
InitRestart ==
    /\ now = MaxStart
    /\ last_op = "init"
    /\ DisplayInit
    /\ WorkerInit
    /\ LifeInit
    /\ ConcInit
    /\ screen = [ e \in Engines |-> LifeScreen ]
    /\ time_offset = TimeOffset
    /\ ExtraInit

NextRestart ==
    \/ Start(1)
    \/ StopCall(1)
    \/ JoinReturns(1)
    \/ JoinTimeout(1)
    \/ WorkerExits(1)
    \/ WorkerStep(1)
    \/ DisplayCall
    \/ DisplayRead
    \/ DisplayTime

SpecRestart == InitRestart /\ [][NextRestart]_vars

\* C12: a display_time() call made after a restart (stop() followed by
\* start()) and before anything was stored since returns (None, "--:--").
C12_RestartForgetsObservation ==
    ( Called /\ h_restarted ) => ret = Unknown

----------------------------------------------------------------------------
(* Two threads calling display_time() while the worker stores observations. *)

\* A constructed ScreenClock whose worker runs; no call in flight.
InitCallers ==
    /\ now = 0
    /\ last_op = "init"
    /\ DisplayInit
    /\ WorkerInit
    /\ LifeRunning
    /\ ConcInit
    /\ screen = [ e \in Engines |-> ClockScreen ]
    /\ time_offset = TimeOffset
    /\ ExtraInit

\* time.perf_counter() advances, within the horizon of the thread models
ConcTick ==
    /\ now < w_start + ConcHorizon
    /\ Tick

NextCallers ==
    \/ ConcTick
    \/ LoopStep(Observed)
    \/ CycleStep(Observed)
    \/ RaiseStep(Observed)
    \/ \E u \in UIs : DisplayStep(u)

SpecCallers == InitCallers /\ [][NextCallers]_vars

\* C13: when display_time() has read the four fields, the
\* (observed seconds, observed_at) pair it holds is the pair of one worker
\* update (no update is half done) and the (displayed seconds, next tick
\* deadline) pair is the pair of one write (no write is half done).
C13_ReadsWholePairs ==
    \A u \in UIs :
        c_op = << "read_done", u >> =>
            /\ << ui[u].obs_s, ui[u].obs_m >> = << obs_s, obs_m >>
            /\ l_pc[Observed] # "store_obs_m"
            /\ << ui[u].disp_s, ui[u].disp_next >> = << disp_s, disp_next >>
            /\ \A v \in UIs \ { u } : ui[v].pc # "write_disp_next"

\* A read completed while the worker and the other caller both waited to
\* write, after an earlier observation and an earlier display state.
C13_Witness ==
    \E u \in UIs :
        /\ c_op = << "read_done", u >>
        /\ ui[u].obs_s # None
        /\ ui[u].disp_s # None
        /\ ui[u].obs_m > 0
        /\ l_pc[Observed] = "store"
        /\ \E v \in UIs \ { u } : ui[v].pc = "compute" /\ ui[v].disp_s # None

\* The outcome of running call a and then call b, one after the other, from
\* the shared state h_ser.pre: the state left and the two results.
SerialOutcome(a, b) ==
    LET p  == h_ser.pre
        s1 == DisplayState(p[1], p[2], p[3], p[4], h_ser.at[a])
    IN  [ left |-> DisplayState(p[1], p[2], s1[1], s1[2], h_ser.at[b]),
          ra   |-> DisplayResult(p[1], p[2], p[3], p[4], h_ser.at[a]),
          rb   |-> DisplayResult(p[1], p[2], s1[1], s1[2], h_ser.at[b]) ]

\* C14: when two overlapping display_time() calls (no worker update in
\* between) have both returned, the display state left behind and the two
\* results are those of one of the two serial orders of the calls.
C14_TwoCallsSerializable ==
    ( /\ c_op[1] = "return"
      /\ h_ser.st = "two"
      /\ \A u \in UIs : ui[u].pc = "idle" )
        => \E a \in UIs : \E b \in UIs \ { a } :
             /\ << disp_s, disp_next >> = SerialOutcome(a, b).left
             /\ h_ser.ret[a] = SerialOutcome(a, b).ra
             /\ h_ser.ret[b] = SerialOutcome(a, b).rb

----------------------------------------------------------------------------
(* The worker with the thread running debug_snapshot() and the UI thread:   *)
(* who holds _lock and _ocr_lock, and who is inside a capture, a recognize  *)
(* call or an engine reset.                                                 *)

\* A ScreenClock that has run once and has just been started again at a
\* later time of the process, no call in flight.
InitConc ==
    /\ now = MaxStart
    /\ last_op = "init"
    /\ RanBefore
    /\ w_start = now
    /\ LifeRestarted
    /\ ConcInit
    /\ screen = [ e \in Engines |-> SecondScreen ]
    /\ time_offset = TimeOffset
    /\ ExtraInit

NextConc ==
    \/ ConcTick
    \/ LoopStep(Observed)
    \/ ParsedCycleStep(Observed)
    \/ RaiseStep(Observed)
    \/ ResetStep(Observed)
    \/ SnapshotStep
    \/ DisplayStep("ui1")
    \/ LastRawText("ui1")

SpecConc == InitConc /\ [][NextConc]_vars

----------------------------------------------------------------------------
(* Properties of the locks, checked under SpecConc.                         *)

\* C15: the query path never holds _ocr_lock, and the lock it does take is
\* never held by a thread that is inside a capture or a recognize call, so a
\* display_time() call never waits for an OCR call to end.
C15_QueryPathNeverWaitsForOcr ==
    /\ \A u \in UIs : locks.ocr_lock # u
    /\ l_pc[Observed] \in { "capture", "recognize" }
          => locks[QueryLock] # Worker(Observed)
    /\ s_pc \in { "ocr_wait", "recognize" } => locks[QueryLock] # "snap"

\* A display_time() call began, wrote the display state and returned, all
\* during one recognize call of the worker that is still running.
C15_Witness ==
    /\ c_op = << "return", "ui1" >>
    /\ h_during
    /\ l_pc[Observed] = "recognize"
    /\ locks.ocr_lock = Worker(Observed)
    /\ disp_s # None

\* C16: at most one thread is inside a recognize call or an engine reset at
\* any time, and it holds _ocr_lock.
C16_EngineHandleExclusive ==
    /\ ~ ( l_pc[Observed] \in { "recognize", "reset" } /\ s_pc = "recognize" )
    /\ l_pc[Observed] \in { "recognize", "reset" }
          => locks.ocr_lock = Worker(Observed)
    /\ s_pc = "recognize" => locks.ocr_lock = "snap"

\* The worker is due to reset the engine while debug_snapshot() is inside a
\* recognize call: the reset waits.
C16_Witness ==
    /\ l_pc[Observed] = "reset_wait"
    /\ s_pc = "recognize"
    /\ locks.ocr_lock = "snap"

\* C17: a poll cycle in which the capture or the OCR call raised leaves the
\* worker alive, holding neither lock, and the observation as it was, and the
\* worker goes on as after a cycle in which no variant parsed: to the engine
\* reset when the health timer has run out, else to the next cycle.
C17_ExceptionEndsCycleOnly ==
    [][ WorkerDoes({ "raised", "raised_in_ocr" }) =>
          /\ thread'[Observed] = "alive"
          /\ locks'.lock # Worker(Observed)
          /\ locks'.ocr_lock # Worker(Observed)
          /\ obs_s' = obs_s /\ obs_m' = obs_m
          /\ l_pc'[Observed] = AfterFail(Observed) ]_vars

\* The OCR call raised while the worker held _ocr_lock and an observation
\* was stored; the worker is back at the top of its loop with both locks free.
C17_Witness ==
    /\ c_op = << "raised_in_ocr", Worker(Observed) >>
    /\ l_pc[Observed] = "loop"
    /\ obs_s # None
    /\ locks = [ lock |-> "free", ocr_lock |-> "free" ]
    /\ s_pc = "ocr_wait"

----------------------------------------------------------------------------
(* Poll timing, checked under SpecWorker.                                   *)

\* C18: when a poll cycle starts right after a cycle (no sleep slice in
\* between), the next poll deadline is the deadline of that cycle plus the
\* poll period, whenever the cycle actually started.
C18_DeadlinesAdditive ==
    [][ ( /\ WorkerDoes({ "begin" })
          /\ l_loc[Observed].next_time = l_loc[Observed].now_m + PollPeriod )
            => l_loc'[Observed].next_time
                  = l_loc[Observed].next_time + PollPeriod ]_vars

----------------------------------------------------------------------------
(* The variant loop of _read_seconds_once_best on a still screen.           *)

\* for proc, pw, ph, tag in self._iter_preprocess_variants(...): ... break
RECURSIVE BestFrom(_, _, _, _, _)
BestFrom(st, results, order, last_s, i) ==
    IF i > Len(order) \/ st.done THEN st
    ELSE BestFrom(BestAfter(st, ResultOf(results, i), order[i], last_s),
                  results, order, last_s, i + 1)

\* _read_seconds_once_best(): the loop state at its end; the function returns
\* (parsed, variant).
ReadSecondsOnceBest(results, pref, last_s) ==
    BestFrom(NoBest, results, VariantOrder(pref), last_s, 1)

\* The texts the engine may recognize for a variant: "", "0230", "01:38",
\* "01:40", "01:45", "1:75", "02:30", "1 :05" and " 1\t:05\n".
SelTexts ==
    { << >>,
      Text(<< "0", "2", "3", "0" >>),
      Text(<< "0", "1", ":", "3", "8" >>),
      Text(<< "0", "1", ":", "4", "0" >>),
      Text(<< "0", "1", ":", "4", "5" >>),
      Text(<< "1", ":", "7", "5" >>),
      Text(<< "0", "2", ":", "3", "0" >>),
      Text(<< "1", " ", ":", "0", "5" >>),
      Text(<< " ", "1", "\t", ":", "0", "5", "\n" >>) }

\* last_s: no observation yet, or 100 s.
SelLastTimes == { None, 100 }

\* The variants that won the cycle before, in the selector models.
SelPreferred == { Catalog[1], Catalog[2] }

SeqsUpTo(S, n) == UNION { [ 1..k -> S ] : k \in 1..n }

\* The frames of the selector models: the first SelLen variants of the
\* catalog recognize a text each.
SelFrames == SeqsUpTo(SelTexts, SelLen)

\* What the selector models share: an instance whose worker has just been
\* started.  It has observed nothing and prefers no variant, or an earlier
\* run left it last_s = 100 and the variant that read it.
SelStart ==
    /\ ExtraInit
    /\ now = 0
    /\ last_op = "init"
    /\ \/ obs_s = None /\ preferred = NoVariant
       \/ obs_s = 100 /\ preferred \in SelPreferred
    /\ obs_m = 0
    /\ disp_s = None
    /\ disp_next = 0
    /\ ret = Unknown
    /\ h_prev_num = None
    /\ h_corr = 0
    /\ h_base = << None, 0 >>
    /\ h_conv = NoConv
    /\ h_call = None
    /\ w_start = now
    /\ last_parse_ok = 0
    /\ engine_gen = 0
    /\ last_ocr_text = << >>
    /\ h_resets = << None, None >>
    /\ LifeRunning
    /\ ConcInit
    /\ time_offset = TimeOffset

\* The screen stands still: every capture returns the frame f.
StillScreen(f) == [ e \in Engines |-> { f } ]

\* The frame of a still screen.
StillFrame == CHOOSE f \in screen[Observed] : TRUE

\* What _ocr_once_locked returns on the still screen for each variant, in
\* the order of the search of the worker.
sel_results == ResultsOn(StillFrame, VariantOrder(preferred))

\* The variants recognize texts of a still screen.
InitSelect ==
    /\ SelStart
    /\ screen \in { StillScreen(f) : f \in SelFrames }

NextSelect ==
    \/ LoopStep(Observed)
    \/ CycleStep(Observed)

SpecSelect == InitSelect /\ [][NextSelect]_vars

\* ---- _score_candidate on its own ----

\* The candidates _score_candidate is applied to: parsed seconds and text.
ScoreCandidates ==
    [ parsed : { 98, 100, 105, 150 },
      text   : { << >>, Text(<< "0", "2", "3", "0" >>),
                 Text(<< "0", "1", ":", "3", "8" >>),
                 Text(<< "0", "2", ":", "3", "0" >>) } ]

\* Two candidates and the last observed time.
ScoreInputs == [ a : ScoreCandidates, b : ScoreCandidates, last_s : SelLastTimes ]

\* self._score_candidate(parsed_s, text, last_s) for each of the two
\* candidates
ApplyScore ==
    /\ score_in # << >>
    /\ score_out = << >>
    /\ score_out' =
          << ScoreCandidate(score_in.a.parsed, score_in.a.text, score_in.last_s),
             ScoreCandidate(score_in.b.parsed, score_in.b.text, score_in.last_s) >>
    /\ last_op' = "score"
    /\ UNCHANGED << now, obs_s, obs_m, img_in, img_out, score_in, cfgVars, snap_out,
                    uiVars >>
    /\ UNCHANGED << displayVars, workerVars, lifeVars, concVars, selVars >>

\* The selector on a still screen, or two candidates for _score_candidate.
InitScore ==
    \/ InitSelect
    \/ /\ now = 0
       /\ last_op = "init"
       /\ DisplayInit
       /\ WorkerInit
       /\ LifeInit
       /\ ConcInit
       /\ SelInit
       /\ CfgIdle
       /\ UiIdle
       /\ snap_out = << >>
       /\ img_in = << >>
       /\ img_out = << >>
       /\ score_in \in ScoreInputs
       /\ score_out = << >>

NextScore ==
    \/ LoopStep(Observed)
    \/ CycleStep(Observed)
    \/ ApplyScore

SpecScore == InitScore /\ [][NextScore]_vars

\* ---- what an exhaustive search would return ----

\* The variants (positions in the evaluation order) whose result parsed.
ParsedAt(results) == { i \in 1..Len(results) : results[i].parsed # None }

ScoreAt(results, last_s, i) == ScoreCandidate(results[i].parsed, results[i].text, last_s)

\* The first candidate of maximum score.
FirstMax(results, last_s) ==
    CHOOSE i \in ParsedAt(results) :
        \A j \in ParsedAt(results) :
            \/ ScoreAt(results, last_s, j) < ScoreAt(results, last_s, i)
            \/ ScoreAt(results, last_s, j) = ScoreAt(results, last_s, i) /\ i <= j

Exhaustive(results, pref, last_s) ==
    IF ParsedAt(results) = { } THEN << None, NoVariant >>
    ELSE << results[FirstMax(results, last_s)].parsed,
            VariantOrder(pref)[FirstMax(results, last_s)] >>

\* The best_* locals of _read_seconds_once_best of the worker and the last_s
\* it read; after the call, what it returned.
sel_best == l_loc[Observed].best
sel_last == l_loc[Observed].last_s

\* The variant loop of _read_seconds_once_best has just ended: the call is
\* about to return (sel_best.parsed, sel_best.variant).
Returned == c_op = << "left_loop", Worker(Observed) >>

\* C19: the (parsed seconds, variant) _read_seconds_once_best returns, with
\* its early exit, is what an exhaustive search over all the variants returns:
\* the first candidate of maximum score.
C19_EarlyExitEqualsExhaustive ==
    Returned =>
        << sel_best.parsed, sel_best.variant >>
            = Exhaustive(sel_results, preferred, sel_last)

\* The parsed candidates among the variants the loop evaluated.
Evaluated == { i \in ParsedAt(sel_results) : i <= sel_best.n }

HasColon(text) == \E i \in 1..Len(text) : text[i] = Ord(":")

\* Two candidates get the same text bonuses.
SameBonuses(a, b) ==
    /\ (a.text = << >>) <=> (b.text = << >>)
    /\ HasColon(a.text) <=> HasColon(b.text)

\* The screens of the example: "01:38" (98 s) and "02:30" (150 s) are what
\* the first two variants of the catalog recognize, either on either.
ExampleFrames ==
    { << Text(<< "0", "1", ":", "3", "8" >>), Text(<< "0", "2", ":", "3", "0" >>) >>,
      << Text(<< "0", "2", ":", "3", "0" >>), Text(<< "0", "1", ":", "3", "8" >>) >> }

\* C20: the selector returns the highest-scoring of the parsed candidates it
\* evaluated; of two candidates with the same text bonuses the one closer to
\* the last observed time scores at least as high; with last observed time
\* 100 s the candidate 98 s ("01:38") scores higher than a candidate 150 s
\* whose text has no colon, and on a screen with 98 s and 150 s the selector
\* returns 98 s in either variant order.  (A text that parses has a colon, so
\* a candidate without one exists as an argument of _score_candidate only.)
C20_ContinuityDominates ==
    /\ Returned =>
          /\ Evaluated = { } => sel_best.parsed = None
          /\ Evaluated # { } =>
               /\ \A i \in Evaluated : ScoreAt(sel_results, sel_last, i) <= sel_best.score
               /\ \E i \in Evaluated :
                    /\ ScoreAt(sel_results, sel_last, i) = sel_best.score
                    /\ sel_results[i].parsed = sel_best.parsed
          /\ ( sel_last = 100 /\ StillFrame \in ExampleFrames ) => sel_best.parsed = 98
    /\ score_out # << >> =>
          /\ ( /\ score_in.last_s # None
               /\ SameBonuses(score_in.a, score_in.b)
               /\ Abs(score_in.a.parsed - score_in.last_s)
                    <= Abs(score_in.b.parsed - score_in.last_s) )
                 => score_out[1] >= score_out[2]
          /\ ( /\ score_in.last_s = 100
               /\ score_in.a = [ parsed |-> 98, text |-> Text(<< "0", "1", ":", "3", "8" >>) ]
               /\ score_in.b.parsed = 150
               /\ ~HasColon(score_in.b.text) )
                 => score_out[1] > score_out[2]

\* On the screen of the example the farther candidate was evaluated first:
\* 150 s was scored, then 98 s replaced it.
C20_Witness ==
    /\ Returned
    /\ sel_last = 100
    /\ StillFrame \in ExampleFrames
    /\ sel_results[1].parsed = 150
    /\ sel_results[2].parsed = 98
    /\ sel_best.parsed = 98
    /\ sel_best.n = 2

\* _score_candidate was applied to the two candidates of the example.
C20_WitnessScores ==
    /\ score_out = << 12150, 10200 >>
    /\ score_in.last_s = 100
    /\ score_in.a.parsed = 98
    /\ score_in.b = [ parsed |-> 150, text |-> Text(<< "0", "2", "3", "0" >>) ]

----------------------------------------------------------------------------
(* Properties of the selector's result, checked under SpecSelect.           *)

\* The position, in the evaluation order, of the variant the call returned.
WinnerIndex ==
    CHOOSE i \in 1..Len(VariantOrder(preferred)) :
        VariantOrder(preferred)[i] = sel_best.variant

\* C21: after a call that returned a parsed time, the text the engine keeps
\* (last_raw_text()) is the text recognized for the returned variant, the
\* text the returned seconds were parsed from.
C21_TextOfWinningVariant ==
    c_op = << "parsed", Worker(Observed) >> =>
        /\ last_ocr_text = ResultOf(sel_results, WinnerIndex).text
        /\ ParseMMSS(last_ocr_text) = sel_best.parsed

----------------------------------------------------------------------------
(* The preferred variant over the cycles of a new engine, checked under     *)
(* SpecPrefer.                                                              *)

PreferHorizon == 2  \* time units the worker polls for

\* The frames of a changing screen: nothing readable, or the clock read by
\* the first, by the second only, by the third only of the catalog's
\* variants.
PreferScreen ==
    { << >>, << TimeText(0) >>, << NoClockText, TimeText(0) >>,
      << NoClockText, NoClockText, TimeText(1) >> }

\* A new ScreenClock whose worker has just been started.
InitPrefer ==
    /\ now = 0
    /\ last_op = "init"
    /\ DisplayInit
    /\ WorkerInit
    /\ LifeRunning
    /\ ConcInit
    /\ screen = [ e \in Engines |-> PreferScreen ]
    /\ time_offset = TimeOffset
    /\ ExtraInit

PreferTick ==
    /\ now < PreferHorizon
    /\ Tick

NextPrefer ==
    \/ PreferTick
    \/ LoopStep(Observed)
    \/ CycleStep(Observed)
    \/ RaiseStep(Observed)

SpecPrefer == InitPrefer /\ [][NextPrefer]_vars

\* The sequence o is the 36-entry catalog, every entry once, with pref (when
\* there is one) first and the others in catalog order.
OrderIsCatalogPermutation(o, pref) ==
    LET first == IF pref = NoVariant THEN 1 ELSE 2
    IN  /\ Len(Catalog) = 36
        /\ Len(o) = 36
        /\ \A k \in 1..Len(Catalog) :
             Cardinality({ i \in 1..Len(o) : o[i] = Catalog[k] }) = 1
        /\ pref # NoVariant => o[1] = pref
        /\ \A i \in first..Len(o) : \A j \in (i + 1)..Len(o) :
             CatalogIndex(o[i]) < CatalogIndex(o[j])

\* C22: the variant sequence of every search is a permutation of the
\* 36-entry catalog with the preferred variant first and the others in
\* catalog order, and the search evaluates the variants in that sequence;
\* the preferred variant is none or a catalog member; a cycle that parsed
\* sets it to the winning variant, and no other step (so no failed cycle)
\* changes it.
C22_VariantOrderAndPreferred ==
    [][ /\ ( l_pc[Observed] = "ocr_wait" /\ l_pc'[Observed] = "recognize" ) =>
             OrderIsCatalogPermutation(l_loc'[Observed].variants, preferred)
        /\ ( l_pc[Observed] = "set_text" /\ l_pc'[Observed] # "set_text" ) =>
             /\ l_loc'[Observed].variants = l_loc[Observed].variants
             /\ sel_best.n < Len(l_loc[Observed].variants)
             /\ last_ocr_text'
                  = Strip(RawOf(l_loc[Observed].frame,
                                l_loc[Observed].variants[sel_best.n + 1]))
        /\ preferred' = NoVariant \/ \E k \in 1..Len(Catalog) : preferred' = Catalog[k]
        /\ last_op' = "marked" =>
             /\ sel_best.parsed # None
             /\ preferred' = sel_best.variant
        /\ last_op' # "marked" => preferred' = preferred
      ]_vars

\* A cycle won by the second catalog entry made it the preferred variant,
\* and the search of a later cycle runs in the order second, first, third:
\* it has evaluated the second and the first entry and is at the third.
C22_Witness ==
    /\ c_op = << "recognize", Worker(Observed) >>
    /\ preferred = Catalog[2]
    /\ l_loc[Observed].variants[1] = Catalog[2]
    /\ l_loc[Observed].variants[2] = Catalog[1]
    /\ l_loc[Observed].variants[3] = Catalog[3]
    /\ sel_best.n = 2

\* A cycle in which only the third catalog entry read the clock made it the
\* preferred variant.
C22_WitnessThird ==
    /\ last_op = "marked"
    /\ preferred = Catalog[3]
    /\ sel_best.variant = Catalog[3]
    /\ last_ocr_text = TimeText(1)

----------------------------------------------------------------------------
(* The result of display_time() and its text, for any time_offset_s,        *)
(* checked under SpecFormat.                                                *)

FormatHorizon == 3  \* time units explored

\* time_offset_s: the default, and a negative one.
FormatOffsets == { TimeOffset, -3 }

\* The parsed times stored: up to 99:59.
FormatTimes == { 0, 9, 59, 599, 5999 }

\* A constructed ScreenClock with any of the offsets, no observation yet.
InitFormat ==
    /\ now = 0
    /\ last_op = "init"
    /\ DisplayInit
    /\ WorkerInit
    /\ LifeInit
    /\ ConcInit
    /\ screen = [ e \in Engines |-> Screen ]
    /\ time_offset \in FormatOffsets
    /\ ExtraInit

FormatTick ==
    /\ now < FormatHorizon
    /\ ui[Caller].pc # "idle" => now - ui[Caller].now_m < CallSpan
    /\ Tick

\* The worker stores a parsed time; the game clock stands still, so every
\* parse of a run reads the same time.
StoreFormatTime ==
    \E t \in FormatTimes :
        /\ obs_s \in { None, t }
        /\ StoreObservationOf({ t })

NextFormat ==
    \/ FormatTick
    \/ StoreFormatTime
    \/ DisplayCall
    \/ DisplayRead
    \/ DisplayTime

SpecFormat == InitFormat /\ [][NextFormat]_vars

\* The number the ASCII decimal digits cs denote.
RECURSIVE DigitsValue(_)
DigitsValue(cs) ==
    IF cs = << >> THEN 0
    ELSE 10 * DigitsValue(SubSeq(cs, 1, Len(cs) - 1)) + (cs[Len(cs)] - Ord("0"))

\* cs is n written in at least two ASCII decimal digits: padded with zeros
\* up to two places and not beyond.
IsTwoDigitRendering(cs, n) ==
    /\ Len(cs) >= 2
    /\ \A i \in 1..Len(cs) : cs[i] \in Ord("0")..Ord("9")
    /\ DigitsValue(cs) = n
    /\ Len(cs) > 2 => cs[1] # Ord("0")

\* txt is the MM:SS rendering of n seconds: the minutes, a colon, and the
\* seconds in exactly two digits.
IsClockText(txt, n) ==
    /\ Len(txt) >= 5
    /\ txt[Len(txt) - 2] = Ord(":")
    /\ IsTwoDigitRendering(SubSeq(txt, 1, Len(txt) - 3), n \div 60)
    /\ IsTwoDigitRendering(SubSeq(txt, Len(txt) - 1, Len(txt)), n % 60)

\* C23: every numeric result of display_time() is max(0, displayed seconds +
\* time_offset_s) (the larger of the two, so never negative), and its text is
\* the MM:SS rendering of that same value (minutes = seconds div 60, seconds
\* mod 60, each in at least two digits); the text is "--:--" exactly when the
\* seconds are None.
C23_ResultHasOffsetAndMatchesText ==
    Called =>
        IF ret[1] = None
        THEN ret[2] = UnknownText
        ELSE /\ ret[1] >= 0
             /\ ret[1] >= disp_s + time_offset
             /\ ret[1] = 0 \/ ret[1] = disp_s + time_offset
             /\ IsClockText(ret[2], ret[1])
             /\ ret[2] # UnknownText

\* With a negative offset a call returned 99:56 for the displayed 5999 s.
C23_Witness ==
    /\ Called
    /\ time_offset < 0
    /\ disp_s = 5999
    /\ ret[1] = 5996
    /\ ret[2] = Text(<< "9", "9", ":", "5", "6" >>)

\* The offset would make the result negative: the call returned 0, "00:00".
C23_WitnessClamped ==
    /\ Called
    /\ disp_s # None
    /\ disp_s + time_offset < 0
    /\ ret[1] = 0
    /\ ret[2] = Text(<< "0", "0", ":", "0", "0" >>)

\* A result of 100 minutes: three minute digits.
C23_WitnessHundred ==
    /\ Called
    /\ ret[1] = 6000
    /\ ret[2] = Text(<< "1", "0", "0", ":", "0", "0" >>)

----------------------------------------------------------------------------
(* stop() under scheduling assumptions: the join timer fires, a dead worker *)
(* ends the join, and a worker that is not inside a poll cycle gets to run  *)
(* (its sleep slices end, its loop test is evaluated, the two assignments   *)
(* of its store and the record of the parse are made).  Nothing is assumed  *)
(* about a poll cycle in flight: the external OCR call may never return.    *)

\* Two ScreenClock instances at a later time of the process: each has run
\* once (one poll cycle at time 0, which read 0 s with the first entry of the
\* catalog) and was stopped; both workers have exited.
InitLifeFair ==
    /\ now = MaxStart
    /\ last_op = "init"
    /\ RanBefore
    /\ w_start = 0
    /\ stop_evt = TRUE
    /\ thread = [ e \in Engines |-> "dead" ]
    /\ l_pc = [ e \in Engines |-> "idle" ]
    /\ stopped = [ e \in Engines |-> TRUE ]
    /\ caller = << "idle", 0 >>
    /\ h_life = [ e \in Engines |-> "stopped" ]
    /\ h_restarted = FALSE
    /\ workers = [ e \in Engines |-> 0 ]
    /\ l_loc = [ e \in Engines |->
                   [ WorkerLocals EXCEPT !.seen = 0, !.preferred = Catalog[1] ] ]
    /\ ConcInit
    /\ screen = [ e \in Engines |-> SecondScreen ]
    /\ time_offset = TimeOffset
    /\ ExtraInit

SpecLifeFair ==
    /\ InitLifeFair
    /\ [][NextLife]_vars
    /\ \A e \in Engines :
         /\ WF_vars(JoinReturns(e))
         /\ WF_vars(JoinTimeout(e))
         /\ WF_vars(WorkerEnters(e))
         /\ WF_vars(WorkerExits(e))
         /\ WF_vars(WorkerWakes(e))
         /\ WF_vars(WStoreObsM(e))
         /\ WF_vars(WMarksParse(e))

C25_AtMostOneWorkerPerEngine ==
    \A e \in Engines :
        /\ workers[e] <= 1
        /\ workers[e] = 1 <=> thread[e] = "alive"

\* stop() gave up on a worker still inside a recognize call and start() was
\* called next on the same instance: it found that worker alive and created
\* no other.
C25_Witness ==
    /\ last_op = "start"
    /\ \E e \in Engines :
         /\ h_life[e] = "started"
         /\ stopped[e]
         /\ l_pc[e] = "recognize"
         /\ workers[e] = 1

----------------------------------------------------------------------------
(* Construction from the persisted configuration: start_clock_from_config() *)
(* loads config.json, builds the Rect, constructs the ScreenClock and       *)
(* starts it.  A JSON value is absent, a text that int() rejects, or an     *)
(* integer.                                                                 *)

RectKeys == << "x", "y", "w", "h" >>

CfgInts == { -1, 0, 1 }

CfgValues ==
    { [ kind |-> "absent", v |-> 0 ], [ kind |-> "text", v |-> 0 ] }
        \cup { [ kind |-> "int", v |-> n ] : n \in CfgInts }

\* config.json: whether the file exists, whether it has "clock_rect", the
\* four values of clock_rect; and whether the WinRT OCR wheels imported.
CfgInputs ==
    [ exists   : BOOLEAN,
      has_rect : BOOLEAN,
      x        : { [ kind |-> "absent", v |-> 0 ], [ kind |-> "int", v |-> 0 ] },
      y        : { [ kind |-> "absent", v |-> 0 ], [ kind |-> "int", v |-> 0 ] },
      w        : CfgValues,
      h        : CfgValues,
      ocr      : BOOLEAN ]

\* Rect(x=int(r["x"]), y=int(r["y"]), w=int(r["w"]), h=int(r["h"])): the
\* arguments are evaluated left to right; r[k] raises KeyError for an absent
\* key and int() raises ValueError for a text.  From position i on.
RECURSIVE RectArgs(_, _)
RectArgs(data, i) ==
    IF i > Len(RectKeys) THEN "ok"
    ELSE CASE data[RectKeys[i]].kind = "absent" -> "key_error"
           [] data[RectKeys[i]].kind = "text"   -> "value_error"
           [] OTHER -> RectArgs(data, i + 1)

\* OverlayConfig.load: data["clock_rect"], then the Rect.
OverlayConfigLoad(data) ==
    IF ~data.has_rect THEN "key_error"
    ELSE RectArgs(data, 1)

\* cfg = _load_config_or_die(): SystemExit when the file is missing, the
\* exception of OverlayConfig.load when it raises, else the configuration.
LoadConfigOrDie ==
    /\ cfg_pc = "boot"
    /\ cfg_pc' = IF ~cfg_data.exists THEN "system_exit"
                 ELSE IF OverlayConfigLoad(cfg_data) = "ok" THEN "loaded"
                 ELSE OverlayConfigLoad(cfg_data)
    /\ cfg_rect' = IF cfg_data.exists /\ OverlayConfigLoad(cfg_data) = "ok"
                   THEN [ x |-> cfg_data.x.v, y |-> cfg_data.y.v,
                          w |-> cfg_data.w.v, h |-> cfg_data.h.v ]
                   ELSE cfg_rect
    /\ last_op' = "load_config"
    /\ UNCHANGED << now, obs_s, obs_m, cfg_data >>
    /\ UNCHANGED << displayVars, workerVars, lifeVars, concVars, selVars, snap_out, imgVars, uiVars >>

\* clock = ScreenClock(rect=cfg.clock_rect, ...): __post_init__ raises
\* RuntimeError when the OCR wheels did not import, else calls the engine
\* factory, which returns the engine or raises.
ConstructClock ==
    /\ cfg_pc = "loaded"
    /\ cfg_pc' \in IF cfg_data.ocr THEN { "constructed", "factory_error" }
                   ELSE { "runtime_error" }
    /\ last_op' = "construct"
    /\ UNCHANGED << now, obs_s, obs_m, cfg_data, cfg_rect >>
    /\ UNCHANGED << displayVars, workerVars, lifeVars, concVars, selVars, snap_out, imgVars, uiVars >>

\* clock.start() on the new instance: no thread yet, so the flag is cleared
\* and the worker thread created.
StartClock ==
    /\ cfg_pc = "constructed"
    /\ cfg_pc' = "running"
    /\ stop_evt' = FALSE
    /\ thread' = [ thread EXCEPT ![1] = "alive" ]
    /\ l_pc' = [ l_pc EXCEPT ![1] = "entry" ]
    /\ workers' = [ workers EXCEPT ![1] = workers[1] + 1 ]
    /\ l_loc' = [ l_loc EXCEPT ![1] = NewThread(1) ]
    /\ h_life' = [ h_life EXCEPT ![1] = "started" ]
    /\ last_op' = "start"
    /\ UNCHANGED << stopped, caller, h_restarted >>
    /\ UNCHANGED << now, obs_s, obs_m, cfg_data, cfg_rect >>
    /\ UNCHANGED << displayVars, workerVars, concVars, selVars, snap_out, imgVars, uiVars >>

\* No engine constructed yet: every field at its default, nothing called.
NothingConstructed ==
    /\ now = 0
    /\ last_op = "init"
    /\ DisplayInit
    /\ WorkerInit
    /\ LifeInit
    /\ ConcInit
    /\ SelInit
    /\ snap_out = << >>

InitConfig ==
    /\ NothingConstructed
    /\ ImgIdle
    /\ UiIdle
    /\ cfg_data \in CfgInputs
    /\ cfg_rect = << >>
    /\ cfg_pc = "boot"

NextConfig ==
    \/ LoadConfigOrDie
    \/ ConstructClock
    \/ StartClock
    \/ /\ cfg_pc = "running"
       /\ WorkerEnters(1)

SpecConfig == InitConfig /\ [][NextConfig]_vars

\* C26 (as claimed): a configuration whose rectangle has a field missing or
\* has w <= 0 or h <= 0 never gets as far as a constructed ScreenClock, so
\* every constructed or running engine has a Rect with w > 0 and h > 0.
C26_InvalidRectIsFatal ==
    cfg_pc \in { "constructed", "running" } =>
        /\ cfg_rect # << >>
        /\ cfg_rect.w > 0
        /\ cfg_rect.h > 0

----------------------------------------------------------------------------
(* Parsing: one poll cycle on every short recognized text.  The first       *)
(* variant recognizes the text, the others recognize nothing.               *)

ParseLen == 5       \* longest recognized text explored

\* The characters of the texts: ASCII digits, the colon, the tab, a letter
\* and the fullwidth digit three.
ParseChars ==
    { Ord("0"), Ord("5"), Ord("9"), Ord(":"), Ord("\t"), Ord("x"),
      FullwidthDigit(3) }

\* result.text: any text of up to ParseLen of the characters
ParseTexts == UNION { [ 1..k -> ParseChars ] : k \in 0..ParseLen }

InitParse ==
    /\ SelStart
    /\ obs_s = None
    /\ screen \in { StillScreen(<< t >>) : t \in ParseTexts }

NextParse ==
    \/ LoopStep(Observed)
    \/ CycleStep(Observed)

SpecParse == InitParse /\ [][NextParse]_vars

\* The MM:SS tokens of a text: k minute digits from position i, a colon at
\* c and two second digits from s, with nothing but white space between.
Tokens(t) ==
    { tk \in [ i : 1..Len(t), k : { 1, 2 }, c : 1..Len(t), s : 1..Len(t) ] :
        /\ \A j \in tk.i..(tk.i + tk.k - 1) : DigitAt(t, j)
        /\ tk.c >= tk.i + tk.k
        /\ \A j \in (tk.i + tk.k)..(tk.c - 1) : IsSpace(t[j])
        /\ t[tk.c] = Ord(":")
        /\ tk.s > tk.c
        /\ \A j \in (tk.c + 1)..(tk.s - 1) : IsSpace(t[j])
        /\ DigitAt(t, tk.s)
        /\ DigitAt(t, tk.s + 1) }

\* The token a search reports: the leftmost, with two minute digits if it can.
IsMatched(t, tk) ==
    /\ tk \in Tokens(t)
    /\ \A o \in Tokens(t) : o.i > tk.i \/ ( o.i = tk.i /\ o.k <= tk.k )

TokenMinutes(t, tk) ==
    IF tk.k = 2 THEN 10 * DigitVal(t[tk.i]) + DigitVal(t[tk.i + 1]) ELSE DigitVal(t[tk.i])

TokenSeconds(t, tk) == 10 * DigitVal(t[tk.s]) + DigitVal(t[tk.s + 1])

\* The poll cycle is over: the worker is back at its loop test after the
\* record of the parse, or after `if t is None`.
CycleOver ==
    /\ c_op[2] = Worker(Observed)
    /\ c_op[1] \in { "marked", "no_parse" }

\* C27: the time a poll cycle stores comes from a token of 1-2 minute
\* digits, a colon and 2 second digits of the recognized text, with seconds
\* <= 59 and minutes <= 99, and equals minutes * 60 + seconds, so it lies in
\* 0..5999; a text whose matched token has seconds > 59 stores nothing.
C27_StoredTimeIsValidToken ==
    CycleOver =>
        LET t == StillFrame[1]
        IN  /\ sel_best.parsed # None =>
                /\ obs_s = sel_best.parsed
                /\ obs_s \in 0..5999
                /\ \E tk \in Tokens(t) :
                     /\ TokenSeconds(t, tk) <= 59
                     /\ TokenMinutes(t, tk) <= 99
                     /\ obs_s = TokenMinutes(t, tk) * 60 + TokenSeconds(t, tk)
            /\ \A tk \in Tokens(t) :
                 ( IsMatched(t, tk) /\ TokenSeconds(t, tk) > 59 ) =>
                     ( sel_best.parsed = None /\ obs_s = None )

\* The text "99:59" was recognized and 5999 stored.
C27_Witness ==
    /\ CycleOver
    /\ StillFrame[1] = Text(<< "9", "9", ":", "5", "9" >>)
    /\ obs_s = 5999

\* The text "9:95" was recognized: its token has 95 seconds, nothing stored.
C27_WitnessRejected ==
    /\ CycleOver
    /\ StillFrame[1] = Text(<< "9", ":", "9", "5" >>)
    /\ obs_s = None

\* The text "5\t:09" was recognized: white space that is no blank stands
\* before the colon, and 309 was stored.
C27_WitnessTab ==
    /\ CycleOver
    /\ StillFrame[1] = Text(<< "5", "\t", ":", "0", "9" >>)
    /\ obs_s = 309

\* A text of fullwidth digits was recognized: 3 minutes 33 seconds stored.
C27_WitnessFullwidth ==
    /\ CycleOver
    /\ StillFrame[1]
         = << FullwidthDigit(3), Ord(":"), FullwidthDigit(3), FullwidthDigit(3) >>
    /\ obs_s = 213

----------------------------------------------------------------------------
(* debug_snapshot() called while the worker polls a still screen.           *)

NextSnap ==
    \/ LoopStep(Observed)
    \/ CycleStep(Observed)
    \/ SnapshotStep

SpecSnap == InitSelect /\ [][NextSnap]_vars

\* What _ocr_once_locked returns on the still screen for each variant, in
\* the order debug_snapshot() tried them.
snap_results == ResultsOn(StillFrame, VariantOrder(snap_out.pref))

\* C28 (as claimed): debug_snapshot() attempts every variant of the catalog
\* (tried_count is the catalog size), records each variant's text and parse
\* result, and its "best" is the variant _read_seconds_once_best selects for
\* the same per-variant results, preferred variant and last observed time.
C28_SnapshotBestIsSelectorChoice ==
    c_op = << "return", "snap" >> =>
        /\ snap_out.tried_count = Len(Catalog)
        /\ \A i \in 1..Len(Catalog) :
             /\ snap_out.tried[i].variant = VariantOrder(snap_out.pref)[i]
             /\ snap_out.tried[i].text = ResultOf(snap_results, i).text
             /\ snap_out.tried[i].parsed = ResultOf(snap_results, i).parsed
        /\ ReadSecondsOnceBest(snap_results, snap_out.pref, obs_s).parsed # None =>
             snap_out.best.variant
                = ReadSecondsOnceBest(snap_results, snap_out.pref, obs_s).variant

----------------------------------------------------------------------------
(* The image functions.  A buffer is the row-major sequence of its pixels,  *)
(* each pixel the four bytes << b, g, r, a >>; its length in bytes is four  *)
(* times its length in pixels.  Coordinates count from 0 as in the code.    *)

BufLen(px) == 4 * Len(px)

\* lum = (54 * r + 183 * g + 19 * b) // 256
Lum(p) == (54 * p[3] + 183 * p[2] + 19 * p[1]) \div 256

\* (lum >= lum_threshold) and (g >= g_min) and (g >= r) and (g >= b)
IsDigitPixel(p, lum_th, g_min) ==
    /\ Lum(p) >= lum_th
    /\ p[2] >= g_min
    /\ p[2] >= p[3]
    /\ p[2] >= p[1]

\* mask[mi] = 1 if is_digit else 0, one entry per pixel
DigitMask(px, lum_th, g_min) ==
    [ i \in 1..Len(px) |-> IF IsDigitPixel(px[i], lum_th, g_min) THEN 1 ELSE 0 ]

\* One pass of _dilate_mask: a cell is set when a cell of its 3 x 3
\* neighbourhood, clipped to the image, is set.
DilateOnce(mask, w, h) ==
    [ i \in 1..(w * h) |->
        LET x == (i - 1) % w
            y == (i - 1) \div w
        IN  IF \E yy \in Max(0, y - 1)..Min(h - 1, y + 1) :
                 \E xx \in Max(0, x - 1)..Min(w - 1, x + 1) : mask[yy * w + xx + 1] # 0
            THEN 1 ELSE 0 ]

\* Mutant of DilateMask: the mask is returned as it came.
DilateSkipped(mask, w, h, iters) == mask

\* _dilate_mask(mask, w, h, iters)
RECURSIVE DilateMask(_, _, _, _)
DilateMask(mask, w, h, iters) ==
    IF iters <= 0 THEN mask
    ELSE DilateMask(DilateOnce(mask, w, h), w, h, iters - 1)

\* mono: v = 0 if mask[p] else 255, written to b, g, r; alpha 255
Mono(mask) ==
    [ p \in 1..Len(mask) |->
        IF mask[p] # 0 THEN << 0, 0, 0, 255 >> ELSE << 255, 255, 255, 255 >> ]

\* The nearest-neighbour upscale: the pixel at (x, y) is written to the
\* scale x scale block of destination pixels from (x * scale, y * scale).
Upscale(mono, w, h, scale) ==
    [ k \in 1..((w * scale) * (h * scale)) |->
        LET dx == (k - 1) % (w * scale)
            dy == (k - 1) \div (w * scale)
            v  == mono[(dy \div scale) * w + (dx \div scale) + 1][1]
        IN  << v, v, v, 255 >> ]

\* _preprocess_clock_bgra(bgra, w, h, scale=, lum_threshold=, g_min=,
\* dilate_iters=) for a variant << scale, lum_threshold, g_min, dilate_iters >>
\* of the catalog (scale >= 1): the processed buffer and its dimensions.
PreprocessClockBgra(px, w, h, v) ==
    LET mask == DilateMask(DigitMask(px, v[2], v[3]), w, h, v[4])
    IN  IF v[1] = 1
        THEN [ px |-> Mono(mask), w |-> w, h |-> h ]
        ELSE [ px |-> Upscale(Mono(mask), w, h, v[1]), w |-> w * v[1], h |-> h * v[1] ]

\* Pixel colours: black, a green that passes lum 60 and g_min 60 and 80 but
\* not lum 70 or g_min 100, and a bright colour whose red exceeds its green.
Palette == { << 0, 0, 0, 255 >>, << 0, 90, 0, 255 >>, << 0, 200, 255, 255 >> }

\* << w, h >> of the source buffers explored
PreSizes == { << 1, 1 >>, << 3, 1 >>, << 1, 3 >>, << 2, 2 >>, << 4, 1 >> }

InitPreprocess ==
    /\ NothingConstructed
    /\ CfgIdle
    /\ UiIdle
    /\ img_in \in UNION { [ px : [ 1..(sz[1] * sz[2]) -> Palette ],
                             w : { sz[1] }, h : { sz[2] },
                             variant : { Catalog[i] : i \in 1..Len(Catalog) } ]
                           : sz \in PreSizes }
    /\ img_out = << >>
    /\ ScoreIdle

\* proc, pw, ph = _preprocess_clock_bgra(raw_bgra, w, h, ...)
Preprocess ==
    /\ img_out = << >>
    /\ img_out' = PreprocessClockBgra(img_in.px, img_in.w, img_in.h, img_in.variant)
    /\ last_op' = "preprocess"
    /\ UNCHANGED << now, obs_s, obs_m, img_in, score_in, score_out, cfgVars, snap_out,
                    uiVars >>
    /\ UNCHANGED << displayVars, workerVars, lifeVars, concVars, selVars >>

NextPreprocess == Preprocess

SpecPreprocess == InitPreprocess /\ [][NextPreprocess]_vars

\* The source pixel at (x, y).
SourceAt(x, y) == img_in.px[y * img_in.w + x + 1]

\* A digit pixel of the source lies within d pixels of (x, y) in both
\* directions: d dilation passes set the mask exactly there.
DigitWithin(x, y, d) ==
    \E xx \in 0..(img_in.w - 1) : \E yy \in 0..(img_in.h - 1) :
        /\ Abs(xx - x) <= d
        /\ Abs(yy - y) <= d
        /\ IsDigitPixel(SourceAt(xx, yy), img_in.variant[2], img_in.variant[3])

\* C29: for a source of w x h pixels and any variant the processed image has
\* exactly (w * scale) x (h * scale) pixels, its buffer w*scale*h*scale*4
\* bytes, and every source pixel fills a scale x scale block: black where the
\* dilated digit mask is set, white elsewhere.
C29_ProcessedImageIsScaledMask ==
    img_out # << >> =>
        LET scale == img_in.variant[1]
        IN  /\ img_out.w = img_in.w * scale
            /\ img_out.h = img_in.h * scale
            /\ BufLen(img_out.px) = img_in.w * scale * img_in.h * scale * 4
            /\ \A x \in 0..(img_in.w - 1) : \A y \in 0..(img_in.h - 1) :
                 \A bx \in 0..(scale - 1) : \A by \in 0..(scale - 1) :
                   img_out.px[(y * scale + by) * img_out.w + (x * scale + bx) + 1]
                     = IF DigitWithin(x, y, img_in.variant[4])
                       THEN << 0, 0, 0, 255 >>
                       ELSE << 255, 255, 255, 255 >>

\* A 3 x 1 source whose left pixel alone is a digit pixel, one dilation pass:
\* the left and middle blocks are black, the right block is white.
C29_Witness ==
    /\ img_out # << >>
    /\ img_in.w = 3
    /\ img_in.h = 1
    /\ img_in.variant[4] = 1
    /\ IsDigitPixel(img_in.px[1], img_in.variant[2], img_in.variant[3])
    /\ ~IsDigitPixel(img_in.px[2], img_in.variant[2], img_in.variant[3])
    /\ ~IsDigitPixel(img_in.px[3], img_in.variant[2], img_in.variant[3])
    /\ img_out.px[img_in.variant[1] + 1] = << 0, 0, 0, 255 >>
    /\ img_out.px[2 * img_in.variant[1] + 1] = << 255, 255, 255, 255 >>

----------------------------------------------------------------------------
(* _auto_crop_to_glyph_band on a black image with up to two coloured pixels. *)

CropLumMin == 35    \* lum >= 35
CropGMin   == 40    \* g >= 40
PadX       == 3     \* PAD_X
PadY       == 2     \* PAD_Y
CropMinW   == 20    \* cw < 20
CropMinH   == 10    \* ch < 10

\* if lum >= 35 and g >= 40 and g >= r and g >= b
IsGlyphPixel(p) == IsDigitPixel(p, CropLumMin, CropGMin)

\* The pixels of the w-wide buffer px that are glyph-coloured, as << x, y >>.
GlyphPixels(px, w) ==
    { << (i - 1) % w, (i - 1) \div w >> : i \in { j \in 1..Len(px) : IsGlyphPixel(px[j]) } }

SetMin(S) == CHOOSE a \in S : \A b \in S : a <= b
SetMax(S) == CHOOSE a \in S : \A b \in S : a >= b

\* << x0, y0, x1, y1 >>: the bounding box of the glyph pixels G, padded and
\* clipped to the w x h image.
PaddedBox(G, w, h) ==
    << Max(0, SetMin({ g[1] : g \in G }) - PadX),
       Max(0, SetMin({ g[2] : g \in G }) - PadY),
       Min(w - 1, SetMax({ g[1] : g \in G }) + PadX),
       Min(h - 1, SetMax({ g[2] : g \in G }) + PadY) >>

\* The cw x ch pixels of the w-wide buffer px from (x0, y0), row by row.
CropRows(px, w, x0, y0, cw, ch) ==
    [ k \in 1..(cw * ch) |-> px[(y0 + (k - 1) \div cw) * w + x0 + ((k - 1) % cw) + 1] ]

\* Mutant of AutoCropToGlyphBand: the minimum size test is dropped.
AutoCropNoFloor(px, w, h) ==
    LET G   == GlyphPixels(px, w)
        box == PaddedBox(G, w, h)
        cw  == box[3] - box[1] + 1
        ch  == box[4] - box[2] + 1
    IN  IF G = {}
        THEN [ px |-> px, w |-> w, h |-> h, crop |-> << 0, 0, w, h >> ]
        ELSE [ px |-> CropRows(px, w, box[1], box[2], cw, ch), w |-> cw, h |-> ch,
               crop |-> << box[1], box[2], cw, ch >> ]

\* _auto_crop_to_glyph_band(bgra, w, h): the buffer, its dimensions and the
\* crop rectangle (x0, y0, cw, ch).
AutoCropToGlyphBand(px, w, h) ==
    LET G   == GlyphPixels(px, w)
        box == PaddedBox(G, w, h)
        cw  == box[3] - box[1] + 1
        ch  == box[4] - box[2] + 1
    IN  IF G = {}
        THEN [ px |-> px, w |-> w, h |-> h, crop |-> << 0, 0, w, h >> ]
        ELSE IF cw < CropMinW \/ ch < CropMinH
        THEN [ px |-> px, w |-> w, h |-> h, crop |-> << 0, 0, w, h >> ]
        ELSE [ px |-> CropRows(px, w, box[1], box[2], cw, ch), w |-> cw, h |-> ch,
               crop |-> << box[1], box[2], cw, ch >> ]

\* Colours of the two pixels: glyph green, a green too dark to qualify, and
\* a bright colour whose red exceeds its green.
CropPalette == { << 0, 255, 0, 255 >>, << 0, 45, 0, 255 >>, << 0, 200, 255, 255 >> }

\* << w, h >> of the captured images explored
CropSizes == { << 20, 10 >>, << 19, 12 >>, << 22, 9 >>, << 24, 13 >> }

\* Where the two pixels may lie.
CropXs(w) == { 0, 4, 17, w - 1 }
CropYs(h) == { 0, 3, 8, h - 1 }

\* A black w x h image with colour c1 at (x1, y1) and c2 at (x2, y2).
TwoPixelImage(w, h, x1, y1, c1, x2, y2, c2) ==
    [ i \in 1..(w * h) |->
        IF i = y2 * w + x2 + 1 THEN c2
        ELSE IF i = y1 * w + x1 + 1 THEN c1
        ELSE << 0, 0, 0, 255 >> ]

InitCrop ==
    /\ NothingConstructed
    /\ CfgIdle
    /\ UiIdle
    /\ img_in \in UNION {
         { [ px |-> TwoPixelImage(sz[1], sz[2], x1, y1, c1, x2, y2, c2),
             w |-> sz[1], h |-> sz[2], variant |-> NoVariant ]
           : x1 \in CropXs(sz[1]), y1 \in CropYs(sz[2]), c1 \in CropPalette,
             x2 \in CropXs(sz[1]), y2 \in CropYs(sz[2]), c2 \in CropPalette }
         : sz \in CropSizes }
    /\ img_out = << >>
    /\ ScoreIdle

\* raw, rw, rh, used_local = _auto_crop_to_glyph_band(raw_full, w, h)
AutoCrop ==
    /\ img_out = << >>
    /\ img_out' = AutoCropToGlyphBand(img_in.px, img_in.w, img_in.h)
    /\ last_op' = "auto_crop"
    /\ UNCHANGED << now, obs_s, obs_m, img_in, score_in, score_out, cfgVars, snap_out,
                    uiVars >>
    /\ UNCHANGED << displayVars, workerVars, lifeVars, concVars, selVars >>

NextCrop == AutoCrop

SpecCrop == InitCrop /\ [][NextCrop]_vars

\* The glyph-coloured pixels of the source, as << x, y >>.
SourceGlyphs ==
    { xy \in (0..(img_in.w - 1)) \X (0..(img_in.h - 1)) : IsGlyphPixel(SourceAt(xy[1], xy[2])) }

\* Width and height of the padded bounding box of the source's glyph pixels.
PaddedWidth ==
    Min(img_in.w - 1, SetMax({ g[1] : g \in SourceGlyphs }) + 3)
      - Max(0, SetMin({ g[1] : g \in SourceGlyphs }) - 3) + 1

PaddedHeight ==
    Min(img_in.h - 1, SetMax({ g[2] : g \in SourceGlyphs }) + 2)
      - Max(0, SetMin({ g[2] : g \in SourceGlyphs }) - 2) + 1

\* C30: auto-crop on an image with no glyph-coloured pixel, or whose padded
\* bounding box is below the 20 x 10 floor, returns the buffer and dimensions
\* unchanged with crop rectangle (0, 0, w, h); otherwise the crop rectangle
\* lies inside the source, contains every glyph-coloured pixel, and the
\* returned buffer has exactly the rectangle's width and height.
C30_CropUnchangedOrBoundsGlyphs ==
    img_out # << >> =>
        IF SourceGlyphs = {} \/ PaddedWidth < 20 \/ PaddedHeight < 10
        THEN /\ img_out.px = img_in.px
             /\ img_out.w = img_in.w
             /\ img_out.h = img_in.h
             /\ img_out.crop = << 0, 0, img_in.w, img_in.h >>
        ELSE LET x0 == img_out.crop[1]
                 y0 == img_out.crop[2]
                 cw == img_out.crop[3]
                 ch == img_out.crop[4]
             IN  /\ x0 >= 0 /\ y0 >= 0 /\ cw >= 1 /\ ch >= 1
                 /\ x0 + cw <= img_in.w
                 /\ y0 + ch <= img_in.h
                 /\ \A g \in SourceGlyphs :
                      /\ x0 <= g[1] /\ g[1] < x0 + cw
                      /\ y0 <= g[2] /\ g[2] < y0 + ch
                 /\ img_out.w = cw
                 /\ img_out.h = ch
                 /\ BufLen(img_out.px) = cw * ch * 4
                 /\ \A x \in 0..(cw - 1) : \A y \in 0..(ch - 1) :
                      img_out.px[y * cw + x + 1] = SourceAt(x0 + x, y0 + y)

\* Two glyph pixels at (4, 3) and (17, 8) of a 24 x 13 image: the crop is
\* the 20 x 10 rectangle at (1, 1).
C30_Witness ==
    /\ img_out # << >>
    /\ img_in.w = 24
    /\ SourceGlyphs = { << 4, 3 >>, << 17, 8 >> }
    /\ img_out.crop = << 1, 1, 20, 10 >>
    /\ img_out.w = 20
    /\ img_out.h = 10

\* One glyph pixel alone: the padded box is 7 x 5, the image comes back whole.
C30_WitnessBelowFloor ==
    /\ img_out # << >>
    /\ img_in.w = 24
    /\ SourceGlyphs = { << 4, 3 >> }
    /\ img_out.crop = << 0, 0, 24, 13 >>
    /\ img_out.px = img_in.px

----------------------------------------------------------------------------
(* Lock order, checked under SpecConc.                                      *)

ConcThreads == { Worker(Observed), "snap" } \cup UIs

\* The lock the next statement of thread t has to acquire, "none" when its
\* next statement needs no lock.
Needs(t) ==
    CASE t = Worker(Observed) ->
            ( CASE l_pc[Observed] \in { "capture", "set_text", "best_text", "store" }
                     -> "lock"
                [] l_pc[Observed] = "ocr_wait" -> "ocr_lock"
                [] l_pc[Observed] = "reset_wait" -> ResetLock
                [] OTHER -> "none" )
      [] t = "snap" ->
            ( CASE s_pc = "ocr_wait" -> "ocr_lock"
                [] s_pc = "set_text" -> "lock"
                [] OTHER -> "none" )
      [] OTHER ->
            IF \/ ui[t].pc = "enter"
               \/ /\ ui[t].pc = "compute"
                  /\ Regime(ui[t].obs_s, ui[t].obs_m, ui[t].disp_s, ui[t].now_m) # "blank"
            THEN QueryLock
            ELSE "none"

\* A set of threads each of which waits for a lock held inside the set.
Deadlocked(S) ==
    /\ S # {}
    /\ \A t \in S : Needs(t) # "none" /\ locks[Needs(t)] \in S

\* C31: the locks are taken in one order.  No thread acquires _ocr_lock
\* while it holds _lock, the worker holds no lock at the top of its loop
\* (where it sleeps) nor when its thread has ended, and no set of threads
\* waits in a circle.
C31_LockOrderNoDeadlock ==
    [][ /\ \A t \in ConcThreads :
             ( locks'.ocr_lock = t /\ locks.ocr_lock # t ) => locks.lock # t
        /\ l_pc'[Observed] \in { "loop", "sleep", "idle" }
             => ( locks'.lock # Worker(Observed) /\ locks'.ocr_lock # Worker(Observed) )
        /\ \A S \in SUBSET ConcThreads : ~Deadlocked(S)'
      ]_vars

\* The worker holds _ocr_lock and waits for _lock, which the UI thread holds
\* inside display_time(); debug_snapshot() waits for _ocr_lock.
C31_Witness ==
    /\ l_pc[Observed] = "set_text"
    /\ locks.ocr_lock = Worker(Observed)
    /\ locks.lock = "ui1"
    /\ s_pc = "ocr_wait"
    /\ Needs(Worker(Observed)) = "lock"
    /\ Needs("snap") = "ocr_lock"
    /\ Needs("ui1") = "none"

----------------------------------------------------------------------------
(* ScheduledModule of ui/main_window.py: one timer module of the overlay,   *)
(* updated by MainWindow._tick with the game time.  mod.events is the       *)
(* module's schedule, mod.ui what update() last set on its TimerModule.     *)

FlashPre  == 10    \* flash_pre_s
FlashPost == 5     \* flash_post_s

MaxEvents == 3     \* events per schedule
MaxGameT  == 60    \* game times passed to update()

NoEvent == [ time_s |-> None, arrow |-> "" ]

\* The events a schedule is drawn from.
EventPool ==
    { [ time_s |-> 0, arrow |-> "" ], [ time_s |-> 8, arrow |-> "<" ],
      [ time_s |-> 20, arrow |-> "" ], [ time_s |-> 30, arrow |-> ">" ],
      [ time_s |-> 50, arrow |-> "" ] }

\* Mission.load sorts a mission's events by time_s; events_of_type keeps
\* that order.
Schedules ==
    { s \in UNION { [ 1..n -> EventPool ] : n \in 0..MaxEvents } :
        \A i \in 1..Len(s) - 1 : s[i].time_s <= s[i + 1].time_s }

\* The loop of _prev_next from event i on, prev_ev being p so far.
RECURSIVE PrevNextFrom(_, _, _, _)
PrevNextFrom(events, i, p, t) ==
    IF i > Len(events) THEN << p, NoEvent >>
    ELSE IF events[i].time_s > t THEN << p, events[i] >>
    ELSE PrevNextFrom(events, i + 1, events[i], t)

\* ScheduledModule._prev_next(t_s)
PrevNext(events, t) == PrevNextFrom(events, 1, NoEvent, t)

\* t >= ev.time_s - pre and t <= ev.time_s + post, for an event that exists
InFlashWindow(ev, t) ==
    /\ ev # NoEvent
    /\ t >= ev.time_s - FlashPre
    /\ t <= ev.time_s + FlashPost

\* What update() sets on the module's TimerModule when the schedule is empty
\* or t_s is None ("--:--"), or when no event is left ("00:00").
ModuleReset(text) ==
    [ text |-> text, arrow |-> "", elapsed |-> 0, span |-> 1, flash |-> FALSE ]

\* ScheduledModule.update(t_s): the time text, the arrow, the progress ratio
\* elapsed / span and the flash it sets.
ModuleUpdate(events, t) ==
    LET pn    == PrevNext(events, t)
        start == IF pn[1] = NoEvent THEN 0 ELSE pn[1].time_s
        span  == Max(1, pn[2].time_s - start)
    IN  IF t = None \/ events = << >> THEN ModuleReset(UnknownText)
        ELSE IF pn[2] = NoEvent THEN ModuleReset(Text(<< "0", "0", ":", "0", "0" >>))
        ELSE [ text    |-> Format(Max(0, pn[2].time_s - t)),
               arrow   |-> pn[2].arrow,
               elapsed |-> Max(0, Min(span, t - start)),
               span    |-> span,
               flash   |-> InFlashWindow(pn[1], t) \/ InFlashWindow(pn[2], t) ]

\* The schedules of the six modules of the window, as the mission's events
\* of the six types: main objective, bonus objective, escort, attack wave,
\* warp-in, drop pods.
WindowSchedules ==
    << << [ time_s |-> 8, arrow |-> "<" ], [ time_s |-> 30, arrow |-> ">" ] >>,
       << >>,
       << [ time_s |-> 0, arrow |-> "" ] >>,
       << [ time_s |-> 20, arrow |-> "" ] >>,
       << >>,
       << [ time_s |-> 50, arrow |-> "" ] >> >>

\* f"Game Time: {mmss}"
GameTimeLabel(mmss) ==
    Text(<< "G", "a", "m", "e", " ", "T", "i", "m", "e", ":", " " >>) \o mmss

\* The window when MainWindow.__init__ is about to make its first _tick():
\* _label_time = QLabel("Game Time: --:--"), every TimerModule as built
\* (time "--:--", no arrow, empty bar, no flash), _last_mmss = "".
NewWindow ==
    [ last_mmss |-> << >>,
      label     |-> GameTimeLabel(UnknownText),
      mods      |-> << ModuleReset(UnknownText), ModuleReset(UnknownText),
                       ModuleReset(UnknownText), ModuleReset(UnknownText),
                       ModuleReset(UnknownText), ModuleReset(UnknownText) >> ]

\* MainWindow._tick after display_time() returned r = (t_game_s, mmss):
\* nothing when mmss == self._last_mmss, else _last_mmss and the label are
\* set and every module is updated.
AfterTick(w, r) ==
    IF r[2] = w.last_mmss THEN w
    ELSE [ last_mmss |-> r[2],
           label     |-> GameTimeLabel(r[2]),
           mods      |-> << ModuleUpdate(WindowSchedules[1], r[1]),
                            ModuleUpdate(WindowSchedules[2], r[1]),
                            ModuleUpdate(WindowSchedules[3], r[1]),
                            ModuleUpdate(WindowSchedules[4], r[1]),
                            ModuleUpdate(WindowSchedules[5], r[1]),
                            ModuleUpdate(WindowSchedules[6], r[1]) >> ]

----------------------------------------------------------------------------
(* Recalibration: main() of app.py with its MainWindow.  main() keeps the   *)
(* engine in its local `clock`; MainWindow keeps the engine it was built    *)
(* with in self._clock and its timer calls self._clock.display_time().      *)
(* Engine 1 is the one main() starts, engine 2 the one a recalibration      *)
(* constructs.  on_hotkey and MainWindow._tick run on the one GUI thread:   *)
(* neither begins while the other is in progress.                           *)

CalibMinSide == 5     \* if w < 5 or h < 5
CalibPad     == 6     \* PAD
CalibMinW    == 64    \* MIN_W
CalibMinH    == 25    \* MIN_H

\* Where the cursor may be when F8 or F9 is pressed.
CursorPoints == { << 0, 0 >>, << 3, 3 >>, << 40, 30 >> }

\* The Rect the F9 branch builds from points a and b: the spanned box,
\* padded, and widened around its centre to the minimum size.
CalibRect(a, b) ==
    LET w0 == Abs(b[1] - a[1]) + CalibPad * 2
        h0 == Abs(b[2] - a[2]) + CalibPad * 2
        x0 == Min(a[1], b[1]) - CalibPad
        y0 == Min(a[2], b[2]) - CalibPad
    IN  [ x |-> IF w0 < CalibMinW THEN x0 - ((CalibMinW - w0) \div 2) ELSE x0,
          y |-> IF h0 < CalibMinH THEN y0 - ((CalibMinH - h0) \div 2) ELSE y0,
          w |-> IF w0 < CalibMinW THEN CalibMinW ELSE w0,
          h |-> IF h0 < CalibMinH THEN CalibMinH ELSE h0 ]

\* F9 with point a set: the rectangle is large enough to be saved.
CalibAccepts(a, b) ==
    /\ a # << >>
    /\ ~ ( Abs(b[1] - a[1]) < CalibMinSide \/ Abs(b[2] - a[2]) < CalibMinSide )

\* main() has constructed engine 1 from config.json and started it, its
\* worker has made a first poll cycle, and MainWindow.__init__ has come to
\* its last statement, self._tick().  app.pc is where the GUI thread is:
\* "init" in that first tick, "idle" in the event loop, "stopped" between
\* stop_clock() and the construction of the next engine, "constructed"
\* before its start().  app.clock is main()'s `clock` (0 is None), app.win
\* the engine of the window, app.ui the window.
InitRecal ==
    /\ now = PollPeriod
    /\ last_op = "init"
    /\ FirstCycleDone
    /\ screen = [ e \in Engines |-> ReadableScreen ]
    /\ time_offset = TimeOffset
    /\ snap_out = << >>
    /\ ImgIdle
    /\ cfg_data = << >>
    /\ cfg_rect \in { CalibRect(a, b) : a \in { << 0, 0 >> }, b \in { << 100, 10 >> } }
    /\ cfg_pc = "running"
    /\ app = [ clock |-> 1, win |-> 1, active |-> FALSE, a |-> << >>, b |-> << >>,
               pc |-> "init", ui |-> NewWindow ]
    /\ mod = << >>

\* on_hotkey can begin: the GUI thread is in the event loop, in no handler
\* and in no display_time() call.
GuiIdle == app.pc = "idle" /\ caller[1] = "idle" /\ ui[Caller].pc = "idle"

\* What a hotkey handler leaves alone besides app.
HotkeyFrame ==
    /\ UNCHANGED << now, obs_s, obs_m, mod >>
    /\ UNCHANGED << displayVars, workerVars, concVars, selVars, snap_out, imgVars >>

\* F7: calibration begins, both points are forgotten.
HotkeyCalibrate ==
    /\ GuiIdle
    /\ app' = [ app EXCEPT !.active = TRUE, !.a = << >>, !.b = << >> ]
    /\ last_op' = "hotkey_f7"
    /\ HotkeyFrame
    /\ UNCHANGED << lifeVars, cfgVars >>

\* F8 while calibrating: point A is the cursor position.
HotkeyPointA ==
    /\ GuiIdle
    /\ app.active
    /\ \E p \in CursorPoints : app' = [ app EXCEPT !.a = p ]
    /\ last_op' = "hotkey_f8"
    /\ HotkeyFrame
    /\ UNCHANGED << lifeVars, cfgVars >>

\* F9 while calibrating, point A missing or the rectangle too small: point B
\* is recorded, a message is shown, nothing else happens.
HotkeyPointBRejected ==
    /\ GuiIdle
    /\ app.active
    /\ \E p \in CursorPoints :
         /\ ~CalibAccepts(app.a, p)
         /\ app' = [ app EXCEPT !.b = p ]
    /\ last_op' = "hotkey_f9"
    /\ HotkeyFrame
    /\ UNCHANGED << lifeVars, cfgVars >>

\* F9 while calibrating with a rectangle that is accepted: the Rect is saved
\* and stop_clock() calls clock.stop() on engine 1: the flag is set and, the
\* worker being alive, the join begins.  One recalibration is followed (there
\* are two engines in Engines).
HotkeyPointBStops ==
    /\ GuiIdle
    /\ app.active
    /\ app.clock = 1
    /\ \E p \in CursorPoints :
         /\ CalibAccepts(app.a, p)
         /\ app' = [ app EXCEPT !.b = p, !.pc = "stopped" ]
         /\ cfg_rect' = CalibRect(app.a, p)
    /\ stop_evt' = TRUE
    /\ stopped' = [ stopped EXCEPT ![1] = (thread[1] = "alive") ]
    /\ caller' = IF thread[1] = "alive" THEN << "join", 1 >> ELSE caller
    /\ h_life' = [ h_life EXCEPT ![1] = "stopped" ]
    /\ h_restarted' = FALSE
    /\ last_op' = "stop"
    /\ HotkeyFrame
    /\ UNCHANGED << thread, l_pc, workers, l_loc, cfg_data, cfg_pc >>

\* The same when `clock` is None (the construction of an earlier
\* recalibration raised): the Rect is saved and stop_clock() does nothing.
HotkeyPointBNoClock ==
    /\ GuiIdle
    /\ app.active
    /\ app.clock = 0
    /\ \E p \in CursorPoints :
         /\ CalibAccepts(app.a, p)
         /\ app' = [ app EXCEPT !.b = p, !.pc = "stopped" ]
         /\ cfg_rect' = CalibRect(app.a, p)
    /\ last_op' = "hotkey_f9"
    /\ HotkeyFrame
    /\ UNCHANGED << lifeVars, cfg_data, cfg_pc >>

\* The join is over: clock = None, and start_clock_from_config() loads the
\* Rect and constructs the next engine: clock = ScreenClock(...).
HotkeyConstructs ==
    /\ app.pc = "stopped"
    /\ caller[1] = "idle"
    /\ app' = [ app EXCEPT !.clock = 2, !.pc = "constructed" ]
    /\ l_loc' = [ l_loc EXCEPT ![2] = WorkerLocals ]
    /\ last_op' = "construct"
    /\ HotkeyFrame
    /\ UNCHANGED << stop_evt, thread, l_pc, stopped, caller, h_life, h_restarted,
                    workers, cfgVars >>

\* The same when the engine factory of __post_init__ raises: the exception
\* leaves on_hotkey, `clock` stays None and calibrating["active"] stays set.
HotkeyConstructRaises ==
    /\ app.pc = "stopped"
    /\ caller[1] = "idle"
    /\ app' = [ app EXCEPT !.clock = 0, !.pc = "idle" ]
    /\ last_op' = "construct_raised"
    /\ HotkeyFrame
    /\ UNCHANGED << lifeVars, cfgVars >>

\* clock.start() on the new engine (the flag is cleared, the worker thread
\* created and started), then calibrating["active"] = False.  MainWindow is
\* not told.
HotkeyStarts ==
    /\ app.pc = "constructed"
    /\ app' = [ app EXCEPT !.active = FALSE, !.pc = "idle" ]
    /\ stop_evt' = FALSE
    /\ thread' = [ thread EXCEPT ![2] = "alive" ]
    /\ l_pc' = [ l_pc EXCEPT ![2] = "entry" ]
    /\ workers' = [ workers EXCEPT ![2] = workers[2] + 1 ]
    /\ l_loc' = [ l_loc EXCEPT ![2] = NewThread(2) ]
    /\ stopped' = [ stopped EXCEPT ![2] = FALSE ]
    /\ h_life' = [ h_life EXCEPT ![2] = "started" ]
    /\ last_op' = "recalibrated"
    /\ HotkeyFrame
    /\ UNCHANGED << caller, h_restarted, cfgVars >>

\* MainWindow._tick, first statement: self._clock.display_time() is called
\* on the engine the window was built with (app.win), when the GUI thread is
\* in no hotkey handler.
WinTickCalls ==
    /\ app.pc \in { "init", "idle" }
    /\ app.win = Observed
    /\ DisplayCall

\* display_time() reads the fields.
WinTickReads ==
    /\ app.pc \in { "init", "idle" }
    /\ app.win = Observed
    /\ DisplayRead

\* display_time() returns (t_game_s, mmss) and _tick goes on: return if
\* mmss == self._last_mmss; else self._last_mmss = mmss, the label is set
\* and every module updated.  The first tick ends MainWindow.__init__.
WinTickReturns ==
    /\ app.pc \in { "init", "idle" }
    /\ app.win = Observed
    /\ DisplayReturns
    /\ app' = [ app EXCEPT !.pc = "idle", !.ui = AfterTick(app.ui, ret') ]
    /\ UNCHANGED mod

WinTick ==
    \/ WinTickCalls
    \/ WinTickReads
    \/ WinTickReturns

\* The keys pressed up to the recalibration that is followed; none after.
KeysBefore ==
    /\ app.clock # 2
    /\ \/ HotkeyCalibrate
       \/ HotkeyPointA
       \/ HotkeyPointBRejected

NextRecal ==
    \/ KeysBefore
    \/ HotkeyPointBStops
    \/ HotkeyPointBNoClock
    \/ JoinReturns(1)
    \/ JoinTimeout(1)
    \/ HotkeyConstructs
    \/ HotkeyConstructRaises
    \/ HotkeyStarts
    \/ WinTick
    \/ \E e \in Engines :
        \/ WorkerExits(e)
        \/ LoopStep(e)
        \/ ParsedCycleStep(e)

SpecRecal == InitRecal /\ [][NextRecal]_vars

\* C32 (as claimed): once a recalibration has succeeded, stop() has been
\* called on the old engine, the new engine was constructed with the saved
\* Rect and is running, and every MainWindow tick from then on takes the game
\* time from the new engine's display_time().
C32_WindowFollowsNewEngine ==
    ( app.clock = 2 /\ app.pc = "idle" ) =>
        /\ h_life[1] = "stopped"
        /\ thread[2] = "alive"
        /\ last_op = "recalibrated" => cfg_rect = CalibRect(app.a, app.b)
        /\ last_op \in { "display_call", "display_read", "display_time" }
              => app.win = 2

----------------------------------------------------------------------------
\* C33: after a display_time() call at time now that returns a number, the
\* stored next tick deadline lies in (now, now + tick_period]: every tick
\* that was due has been consumed and none has been taken in advance.  A call
\* that returns unknown leaves _disp_s and _disp_next_tick_mono as they were.
C33_DeadlineWithinOneTickAhead ==
    [][ Returns =>
          IF ret'[1] # None
          THEN Read.now_m < disp_next' /\ disp_next' <= Read.now_m + TickPeriod
          ELSE disp_s' = disp_s /\ disp_next' = disp_next ]_vars

\* A numeric call that consumed several holdover ticks at once, the new
\* deadline falling strictly inside the next tick period.
C33_Witness ==
    /\ Called
    /\ ret[1] # None
    /\ Regime(obs_s, obs_m, disp_s, h_call) = "holdover"
    /\ disp_s >= h_base[1] + 2
    /\ disp_next = h_call + 1

\* An unknown call made while a displayed value and its deadline are stored.
C33_WitnessUnknown ==
    /\ Called
    /\ ret[1] = None
    /\ disp_s # None
    /\ disp_next <= h_call

----------------------------------------------------------------------------
(* One ScheduledModule over every short schedule, checked under SpecModule. *)

\* A module constructed over one schedule, not updated yet: its TimerModule
\* shows "--:--".
InitModule ==
    /\ NothingConstructed
    /\ CfgIdle
    /\ ImgIdle
    /\ app = << >>
    /\ mod \in { [ events |-> s, t |-> None, ui |-> ModuleReset(UnknownText) ] : s \in Schedules }

\* lm.update(t_game_s) in MainWindow._tick
Update ==
    /\ \E t \in { None } \cup (0..MaxGameT) :
         mod' = [ mod EXCEPT !.t = t, !.ui = ModuleUpdate(mod.events, t) ]
    /\ last_op' = "update"
    /\ UNCHANGED << now, obs_s, obs_m, app >>
    /\ UNCHANGED << displayVars, workerVars, lifeVars, concVars, selVars, cfgVars,
                    snap_out, imgVars >>

NextModule == Update

SpecModule == InitModule /\ [][NextModule]_vars

\* The events the claim speaks of: the latest event at or before t and the
\* earliest event after t.
IsPrevEvent(events, i, t) ==
    /\ events[i].time_s <= t
    /\ \A j \in 1..Len(events) : events[j].time_s <= t => events[j].time_s <= events[i].time_s

IsNextEvent(events, i, t) ==
    /\ events[i].time_s > t
    /\ \A j \in 1..Len(events) : events[j].time_s > t => events[j].time_s >= events[i].time_s

\* C34 (as claimed): update(t) turns the flash on exactly when t lies within
\* [time_s - flash_pre_s, time_s + flash_post_s] of the previous or of the
\* next event of the schedule, the final event included.
C34_FlashExactlyInEventWindows ==
    (last_op = "update" /\ mod.t # None) =>
        ( mod.ui.flash <=>
            \E i \in 1..Len(mod.events) :
                /\ IsPrevEvent(mod.events, i, mod.t) \/ IsNextEvent(mod.events, i, mod.t)
                /\ InFlashWindow(mod.events[i], mod.t) )

\* While an event is still to come, update(t) does set the flash exactly by
\* the windows of the previous and of the next event.
FlashMatchesWhileEventRemains ==
    (last_op = "update" /\ mod.t # None /\ PrevNext(mod.events, mod.t)[2] # NoEvent) =>
        ( mod.ui.flash <=>
            \E i \in 1..Len(mod.events) :
                /\ IsPrevEvent(mod.events, i, mod.t) \/ IsNextEvent(mod.events, i, mod.t)
                /\ InFlashWindow(mod.events[i], mod.t) )

====
